---- MODULE Spec2Model ----
(***************************************************************************)
(* Model of the document layout segmentation and reconstruction engine of  *)
(* thesis-tests-microservice:                                              *)
(*   app/services/pdf_extraction_math_service.py    (question segmenter)   *)
(*   app/services/answer_extraction_math_service.py (answer/steps)         *)
(* Lengths are in whole PDF points and whole pixels.                       *)
(***************************************************************************)
EXTENDS Integers, Sequences, FiniteSets, TLC

\* ------------------------------------------------------------------------
\* Bounds of the model
\* ------------------------------------------------------------------------
MaxPages == 3
MaxWords == 2
MaxNum == 3
MaxSlices == 3
MaxTables == 3
MaxCells == 2
MaxAbsent == 1
MaxRunTables == 2
MaxRunExercises == 2

\* ------------------------------------------------------------------------
\* Program constants
\* ------------------------------------------------------------------------
\* LEFT_MARGIN_FRACTION = 0.20, kept as hundredths
LEFT_MARGIN_PCT == 20
PADDING_TOP == 8
PADDING_BOTTOM == 8
STITCH_SEP_PX == 2

\* ------------------------------------------------------------------------
\* Inputs: page geometry and words as the layout extraction yields them
\* ------------------------------------------------------------------------
PageHeights == {600, 800}
PageWidths == {600}
WordTops == {50, 80}
\* 120 = 0.20 * 600 is the first x0 that is no longer left of the margin
LeftX0 == 50
MarginX0 == 120

DigitChars == <<"0", "1", "2", "3", "4", "5", "6", "7", "8", "9">>

IsDigit(c) == \E i \in 1..10 : DigitChars[i] = c

DigitVal(c) == (CHOOSE i \in 1..10 : DigitChars[i] = c) - 1

\* str(n) followed by "." as a sequence of characters
NumText(n) ==
    IF n < 10 THEN <<DigitChars[n + 1], ".">>
    ELSE <<DigitChars[(n \div 10) + 1], DigitChars[(n % 10) + 1], ".">>

\* numbered markers at either side of the margin, and words that are no marker
Words ==
    [text : {NumText(n) : n \in 1..MaxNum}, top : WordTops, x0 : {LeftX0}]
    \cup [text : {NumText(n) : n \in 1..MaxNum}, top : {50}, x0 : {MarginX0}]
    \cup [text : {<<"a", ")">>, <<"2">>}, top : {50}, x0 : {LeftX0}]

NoMatch == 0 - 1

\* EXERCISE_NUM_RE = ^(\d{1,2})\.$ and int(m.group(1)); NoMatch when m is None
ExerciseNumMatch(text) ==
    IF /\ Len(text) \in 2..3
       /\ text[Len(text)] = "."
       /\ \A i \in 1..(Len(text) - 1) : IsDigit(text[i])
    THEN IF Len(text) = 2 THEN DigitVal(text[1])
         ELSE 10 * DigitVal(text[1]) + DigitVal(text[2])
    ELSE NoMatch

\* x < page_w * LEFT_MARGIN_FRACTION
LeftAnchoredLoose(x, page_w) == x * 100 <= page_w * LEFT_MARGIN_PCT

LeftAnchored(x, page_w) == x * 100 < page_w * LEFT_MARGIN_PCT

\* num == last_num + 1
AcceptsAnyHigher(num, last) == num > last

AcceptsRepeat(num, last) == num = last + 1 \/ num = last

Accepts(num, last) == num = last + 1

\* open_ex = None
NoEx == [number |-> 0, spans |-> <<>>]

NoWord == [text |-> <<>>, top |-> 0, x0 |-> 0]

Span(page, y_top, y_bottom, page_h, page_w) ==
    [page |-> page, y_top |-> y_top, y_bottom |-> y_bottom,
     page_height |-> page_h, page_width |-> page_w]

_new_exerciseFromPageTop(number, page, y_top, page_h, page_w) ==
    [number |-> number, spans |-> <<Span(page, 0, page_h, page_h, page_w)>>]

_new_exercise(number, page, y_top, page_h, page_w) ==
    [number |-> number, spans |-> <<Span(page, y_top, page_h, page_h, page_w)>>]

_current_span(ex) == ex.spans[Len(ex.spans)]

_extend_to_pageSkipped(ex, page, page_h, page_w) == ex

_extend_to_page(ex, page, page_h, page_w) ==
    [ex EXCEPT !.spans = Append(@, Span(page, 0, page_h, page_h, page_w))]

SetBottom(ex, y) == [ex EXCEPT !.spans[Len(ex.spans)].y_bottom = y]

Max(a, b) == IF a >= b THEN a ELSE b

Min(a, b) == IF a <= b THEN a ELSE b

\* lines 127-131: the open exercise as it is appended when num is accepted
ClosedAtKeepOpen(ex, page, y) == ex

ClosedAt(ex, page, y) ==
    IF _current_span(ex).page = page THEN SetBottom(ex, y) ELSE ex

\* no image: render_exercise returns None, no file is written
NoImage == [width |-> 0, height |-> 0]

NoInput == [bbox |-> <<0, 0, 0, 0>>, page_width |-> 0, page_height |-> 0,
            img_w |-> 0, img_h |-> 0]

VARIABLES
    pc,         \* position of find_exercise_boundaries
    pages,      \* the pages of the PDF read so far: [height, width]
    page_idx,   \* index of the page being scanned (enumerate), -1 before
    nwords,     \* words of the current page already iterated
    word,       \* the loop variable `word`
    open_ex,    \* open_ex
    last_num,   \* last_num
    exercises,  \* exercises
    in_order,   \* the left-anchored marker tokens read so far are 1., 2., ... in order
    marks       \* [page, top] of those tokens while in_order

segVars == <<pc, pages, page_idx, nwords, word, open_ex, last_num, exercises,
             in_order, marks>>

VARIABLES
    st_pc,      \* position of the stitching: "idle", "ready" or "done"
    slices,     \* the fragments to stitch, in input order: [width, height]
    st_kind,    \* which stitcher ran: "question" or "answer"
    canvas,     \* the image returned, NoImage for none
    pasted      \* y offset at which each fragment was pasted on the canvas

stVars == <<st_pc, slices, st_kind, canvas, pasted>>

VARIABLES
    px_pc,      \* position of the conversion: "idle", "ready" or "done"
    px_in,      \* bbox, page size in points and image size in pixels
    px_box,     \* the pixel box after scaling, flipping and clamping
    px_saved    \* the return value of _crop_and_save

pxVars == <<px_pc, px_in, px_box, px_saved>>

VARIABLES
    tb_pc,              \* position of the table loop: "idle", "tables" or "done"
    ntables,            \* len(tables)
    table_idx,          \* tables iterated so far (the next table's table_idx)
    table,              \* the loop variable `table`: its page and the rows of table.df
    answer_col,         \* answer_col of the last iteration
    steps_col,          \* steps_col of the last iteration
    start_row,          \* start_row of the last iteration
    last_answer_col,    \* last_answer_col
    last_steps_col,     \* last_steps_col
    pending_exercise,   \* pending_exercise
    all_exercises       \* all_exercises: ex_num -> answer_cells, steps_cells, page

tbVars == <<tb_pc, ntables, table_idx, table, answer_col, steps_col, start_row,
            last_answer_col, last_steps_col, pending_exercise, all_exercises>>

VARIABLES
    cr_pc,          \* position in one exercise: "idle", "answer", "steps", "done"
    data,           \* all_exercises[ex_num]: answer_cells and steps_cells
    page_crops,     \* page_crops of the answer block and of the steps block
    final_image,    \* final_image of each block, NoImage if none was built
    saved           \* answer_saved and steps_saved: the file was written

crVars == <<cr_pc, data, page_crops, final_image, saved>>

VARIABLES
    gn_pc,                  \* position of generate_test: "idle", "select",
                            \* "returned" or "raised" (ValueError)
    request,                \* request.type and request.language
    questions,              \* the rows of table questions
    q_num,                  \* the loop variable q_num
    selected_questions,     \* selected_questions
    tests,                  \* the committed rows of table tests
    test_questions          \* the committed rows of table test_questions

gnVars == <<gn_pc, request, questions, q_num, selected_questions, tests,
            test_questions>>

VARIABLES
    up_pc,          \* position of an upload: "idle", "request", "write_tmp",
                    \* "mkdir", "detect", "render", "exercises", "read",
                    \* "answers", "returned", "rejected" or "crashed"
    upload,         \* the uploaded file: endpoint, filename properties, content
    http_detail,    \* detail of the HTTPException raised by the router
    tmp_exists,     \* the temporary PDF copy exists
    dir_exists,     \* output_dir exists
    files,          \* the images written to output_dir: <<number, kind>>
    page_px,        \* size of the page images (pages_images)
    steps_pt,       \* width in points of the third table column
    ex_idx,         \* exercises iterated by the saving loop
    saved_count,    \* saved_count
    saved_items,    \* saved_questions or saved_answers
    db,             \* the committed rows of tables questions and answers
    session,        \* the rows as the session db sees them
    result,         \* the dict returned by the service
    printed         \* warnings written by print

upVars == <<up_pc, upload, http_detail, tmp_exists, dir_exists, files, page_px,
            steps_pt, ex_idx, saved_count, saved_items, db, session, result,
            printed>>

VARIABLES
    second_run, \* the same answer key has been uploaded a second time
    first_db    \* the committed rows when the second upload arrived

rrVars == <<second_run, first_db>>

vars == <<segVars, stVars, pxVars, tbVars, crVars, gnVars, upVars, rrVars>>

notSeg == <<stVars, pxVars, tbVars, crVars, gnVars, upVars, rrVars>>

notSt == <<segVars, pxVars, tbVars, crVars, gnVars, upVars, rrVars>>

notPx == <<segVars, stVars, tbVars, crVars, gnVars, upVars, rrVars>>

notTb == <<segVars, stVars, pxVars, crVars, gnVars, upVars, rrVars>>

notCr == <<segVars, stVars, pxVars, tbVars, gnVars, upVars, rrVars>>

notGn == <<segVars, stVars, pxVars, tbVars, crVars, upVars, rrVars>>

notUp == <<segVars, stVars, pxVars, tbVars, crVars, gnVars, rrVars>>

NoUpload == [endpoint |-> "none", ends_pdf |-> FALSE, has_barem |-> FALSE,
             empty |-> FALSE]

NoStore == [questions |-> {}, answers |-> {}]

NoResult == [success |-> FALSE, message |-> <<>>, saved |-> 0, items |-> <<>>]

UpIdle ==
    /\ up_pc = "idle" /\ upload = NoUpload /\ http_detail = "" /\ tmp_exists = FALSE
    /\ dir_exists = FALSE /\ files = {} /\ page_px = <<0, 0>> /\ steps_pt = 0
    /\ ex_idx = 0 /\ saved_count = 0 /\ saved_items = <<>> /\ db = NoStore
    /\ session = NoStore /\ result = NoResult /\ printed = {}

\* no second upload has arrived
RrIdle == second_run = FALSE /\ first_db = NoStore

NoRequest == [type |-> "none", language |-> "none"]

GnIdle ==
    /\ gn_pc = "idle" /\ request = NoRequest /\ questions = {} /\ q_num = 0
    /\ selected_questions = <<>> /\ tests = {} /\ test_questions = {}

Kinds == {"answer", "steps"}

CrIdle ==
    /\ cr_pc = "idle"
    /\ data = [answer_cells |-> <<>>, steps_cells |-> <<>>]
    /\ page_crops = [k \in Kinds |-> <<>>]
    /\ final_image = [k \in Kinds |-> NoImage]
    /\ saved = [k \in Kinds |-> FALSE]

\* Python's None, for a column index or an exercise number
None == 0 - 1

NoTable == [page |-> 0, rows |-> <<>>]

\* the empty dict
NoExercises == [n \in {} |-> 0]

\* the pipelines that are not running stay as they are
TbIdle ==
    /\ tb_pc = "idle" /\ ntables = 0 /\ table_idx = 0 /\ table = NoTable
    /\ answer_col = None /\ steps_col = None /\ start_row = 0
    /\ last_answer_col = None /\ last_steps_col = None
    /\ pending_exercise = None /\ all_exercises = NoExercises

SegIdle ==
    /\ pc = "idle" /\ pages = <<>> /\ page_idx = 0 - 1 /\ nwords = 0
    /\ word = NoWord /\ open_ex = NoEx /\ last_num = 0 /\ exercises = <<>>
    /\ in_order = TRUE /\ marks = <<>>

StIdle ==
    /\ st_pc = "idle" /\ slices = <<>> /\ st_kind = "none"
    /\ canvas = NoImage /\ pasted = <<>>

PxIdle ==
    /\ px_pc = "idle" /\ px_in = NoInput /\ px_box = <<0, 0, 0, 0>>
    /\ px_saved = FALSE

page_h == pages[Len(pages)].height

page_w == pages[Len(pages)].width

SegInit ==
    /\ pc = "page"
    /\ pages = <<>>
    /\ page_idx = 0 - 1
    /\ nwords = 0
    /\ word = NoWord
    /\ open_ex = NoEx
    /\ last_num = 0
    /\ exercises = <<>>
    /\ in_order = TRUE
    /\ marks = <<>>
    /\ StIdle
    /\ PxIdle
    /\ TbIdle
    /\ CrIdle
    /\ GnIdle
    /\ UpIdle
    /\ RrIdle

\* lines 100-115: the next page of pdf.pages is opened
OpenPage(h, w) ==
    /\ pc = "page"
    /\ Len(pages) < MaxPages
    /\ pages' = Append(pages, [height |-> h, width |-> w])
    /\ page_idx' = page_idx + 1
    /\ nwords' = 0
    /\ open_ex' = IF open_ex # NoEx /\ _current_span(open_ex).page < page_idx + 1
                  THEN _extend_to_page(open_ex, page_idx + 1, h, w)
                  ELSE open_ex
    /\ pc' = "words"
    /\ UNCHANGED <<word, last_num, exercises, in_order, marks, notSeg>>

\* lines 117-134: one iteration of `for word in words`
ProcessWord(w) ==
    /\ pc = "words"
    /\ nwords < MaxWords
    /\ word' = w
    /\ nwords' = nwords + 1
    /\ LET y == w.top
           x == w.x0
           num == ExerciseNumMatch(w.text)
       IN  /\ IF num # NoMatch /\ LeftAnchored(x, page_w) /\ Accepts(num, last_num)
              THEN /\ exercises' = IF open_ex # NoEx
                                   THEN Append(exercises, ClosedAt(open_ex, page_idx, y))
                                   ELSE exercises
                   /\ open_ex' = _new_exercise(num, page_idx, y, page_h, page_w)
                   /\ last_num' = num
              ELSE UNCHANGED <<exercises, open_ex, last_num>>
           /\ IF num # NoMatch /\ x * 100 < page_w * LEFT_MARGIN_PCT
              THEN IF in_order /\ num = Len(marks) + 1
                   THEN /\ marks' = Append(marks, [page |-> page_idx, top |-> y])
                        /\ UNCHANGED in_order
                   ELSE /\ in_order' = FALSE
                        /\ marks' = <<>>
              ELSE UNCHANGED <<in_order, marks>>
    /\ UNCHANGED <<pc, pages, page_idx, notSeg>>

\* lines 136-139: the words of the page are exhausted
EndPage ==
    /\ pc = "words"
    /\ open_ex' = IF open_ex # NoEx /\ _current_span(open_ex).page = page_idx
                  THEN SetBottom(open_ex, Max(_current_span(open_ex).y_bottom, page_h))
                  ELSE open_ex
    /\ pc' = "page"
    /\ word' = NoWord
    /\ nwords' = 0
    /\ UNCHANGED <<pages, page_idx, last_num, exercises, in_order, marks, notSeg>>

FinalExercisesDropOpen(exs, ex) == exs

\* lines 141-144
FinalExercises(exs, ex) == IF ex # NoEx THEN Append(exs, ex) ELSE exs

\* lines 141-144: pdf.pages is exhausted; the return value is `exercises`
EndOfDocument ==
    /\ pc = "page"
    /\ exercises' = FinalExercises(exercises, open_ex)
    /\ pc' = "done"
    /\ UNCHANGED <<pages, page_idx, nwords, word, open_ex, last_num, in_order, marks,
                   notSeg>>

SegNext ==
    \/ \E h \in PageHeights, w \in PageWidths : OpenPage(h, w)
    \/ \E w \in Words : ProcessWord(w)
    \/ EndPage
    \/ EndOfDocument

Spec == SegInit /\ [][SegNext]_vars

\* ------------------------------------------------------------------------
\* render_exercise, lines 158-159: the crop range of a fragment in points
\* ------------------------------------------------------------------------
PaddedRange(span) ==
    [page |-> span.page,
     y_top_pt |-> Max(0, span.y_top - PADDING_TOP),
     y_bot_pt |-> Min(span.page_height, span.y_bottom + PADDING_BOTTOM)]

CropRangesPt(ex) == [i \in 1..Len(ex.spans) |-> PaddedRange(ex.spans[i])]

\* ------------------------------------------------------------------------
\* Vertical stitching: render_exercise lines 169-190 (question renderer) and
\* extract_and_save_answers lines 305-316 (answer and steps images).
\* An image is [width, height].
\* ------------------------------------------------------------------------
SliceWidths == {20, 30}
SliceHeights == {10, 15}
Images == [width : SliceWidths, height : SliceHeights]

RECURSIVE SeqsUpTo(_, _)
SeqsUpTo(S, n) ==
    IF n = 0 THEN {<<>>}
    ELSE LET shorter == SeqsUpTo(S, n - 1)
         IN  shorter \cup {Append(q, x) : q \in {r \in shorter : Len(r) = n - 1}, x \in S}

RECURSIVE SumHeights(_)
SumHeights(imgs) ==
    IF imgs = <<>> THEN 0 ELSE imgs[1].height + SumHeights(Tail(imgs))

RECURSIVE MaxWidth(_)
MaxWidth(imgs) ==
    IF imgs = <<>> THEN 0 ELSE Max(imgs[1].width, MaxWidth(Tail(imgs)))

\* the paste loop: the y offset of fragment i and of those after it, the
\* cursor advancing by each height and by sep_h between two fragments
RECURSIVE PasteLoopNoSep(_, _, _, _)
PasteLoopNoSep(imgs, i, y_cursor, sep_h) ==
    IF i > Len(imgs) THEN <<>>
    ELSE <<y_cursor>> \o PasteLoopNoSep(imgs, i + 1, y_cursor + imgs[i].height, sep_h)

RECURSIVE PasteLoop(_, _, _, _)
PasteLoop(imgs, i, y_cursor, sep_h) ==
    IF i > Len(imgs) THEN <<>>
    ELSE <<y_cursor>> \o
         PasteLoop(imgs, i + 1,
                   y_cursor + imgs[i].height
                     + (IF i < Len(imgs) /\ sep_h > 0 THEN sep_h ELSE 0),
                   sep_h)

\* lines 174-178 and 310-312: the canvas allocated for two or more fragments
CanvasFirstWidth(imgs, sep_h) ==
    [width |-> imgs[1].width,
     height |-> SumHeights(imgs) + sep_h * (Len(imgs) - 1)]

Canvas(imgs, sep_h) ==
    [width |-> MaxWidth(imgs),
     height |-> SumHeights(imgs) + sep_h * (Len(imgs) - 1)]

StitchInit ==
    /\ st_pc = "ready"
    /\ slices \in SeqsUpTo(Images, MaxSlices)
    /\ st_kind = "none"
    /\ canvas = NoImage
    /\ pasted = <<>>
    /\ SegIdle
    /\ PxIdle
    /\ TbIdle
    /\ CrIdle
    /\ GnIdle
    /\ UpIdle
    /\ RrIdle

\* render_exercise lines 169-190
RenderStitch ==
    /\ st_pc = "ready"
    /\ st_kind' = "question"
    /\ IF slices = <<>>
       THEN canvas' = NoImage /\ pasted' = <<>>
       ELSE IF Len(slices) = 1
       THEN canvas' = slices[1] /\ pasted' = <<>>
       ELSE /\ canvas' = Canvas(slices, STITCH_SEP_PX)
            /\ pasted' = PasteLoop(slices, 1, 0, STITCH_SEP_PX)
    /\ st_pc' = "done"
    /\ UNCHANGED <<slices, notSt>>

\* extract_and_save_answers lines 305-316 (and 362-372 for the steps)
AnswerStitch ==
    /\ st_pc = "ready"
    /\ st_kind' = "answer"
    /\ IF slices = <<>>
       THEN canvas' = NoImage /\ pasted' = <<>>
       ELSE IF Len(slices) = 1
       THEN canvas' = slices[1] /\ pasted' = <<>>
       ELSE /\ canvas' = Canvas(slices, 0)
            /\ pasted' = PasteLoop(slices, 1, 0, 0)
    /\ st_pc' = "done"
    /\ UNCHANGED <<slices, notSt>>

StitchNext == RenderStitch \/ AnswerStitch

SpecStitch == StitchInit /\ [][StitchNext]_vars

\* ------------------------------------------------------------------------
\* Python float arithmetic (IEEE 754 binary64, round to nearest, ties to
\* even) for the operations of the point-to-pixel conversion, on whole
\* numbers below 2^14.  A positive float is [m, e]: m its FloatPrec
\* significand bits, most significant first, and its value is m * 2^e;
\* zero is FloatZero.  Long numbers are handled ChunkBits bits at a time.
\* ------------------------------------------------------------------------
FloatPrec == 53

ChunkBits == 16

\* chunks of quotient bits computed after the binary point
FracChunks == 5

FloatZero == [m |-> <<>>, e |-> 0]

RECURSIVE Pow2(_)
Pow2(k) == IF k = 0 THEN 1 ELSE 2 * Pow2(k - 1)

\* the k low binary digits of c, most significant first
BitsK(c, k) == [i \in 1..k |-> (c \div Pow2(k - i)) % 2]

\* the binary digits of a natural number, none for 0
RECURSIVE Bin(_)
Bin(c) == IF c = 0 THEN <<>> ELSE Append(Bin(c \div 2), c % 2)

RECURSIVE BitsValue(_)
BitsValue(bits) ==
    IF bits = <<>> THEN 0
    ELSE 2 * BitsValue(SubSeq(bits, 1, Len(bits) - 1)) + bits[Len(bits)]

\* bits + 1; one bit longer when every bit was 1
Incr(bits) ==
    IF \A i \in 1..Len(bits) : bits[i] = 1
    THEN <<1>> \o [i \in 1..Len(bits) |-> 0]
    ELSE LET z == CHOOSE i \in 1..Len(bits) :
                      bits[i] = 0 /\ \A j \in (i + 1)..Len(bits) : bits[j] = 1
         IN  [i \in 1..Len(bits) |-> IF i < z THEN bits[i] ELSE IF i = z THEN 1 ELSE 0]

\* rounding to the kept bits, given the first dropped bit and whether a
\* later dropped bit is set
RoundTruncating(kept, half, sticky, e) == [m |-> kept, e |-> e]

RoundNearestEven(kept, half, sticky, e) ==
    IF half = 1 /\ (sticky \/ kept[Len(kept)] = 1)
    THEN LET up == Incr(kept)
         IN  IF Len(up) > Len(kept)
             THEN [m |-> SubSeq(up, 1, Len(kept)), e |-> e + 1]
             ELSE [m |-> up, e |-> e]
    ELSE [m |-> kept, e |-> e]

\* the next k chunks of quotient bits of r / b for 0 <= r < b, and the
\* remainder left
RECURSIVE FracBits(_, _, _)
FracBits(r, b, k) ==
    IF k = 0 THEN [bits |-> <<>>, rem |-> r]
    ELSE LET t == r * Pow2(ChunkBits)
             rest == FracBits(t % b, b, k - 1)
         IN  [bits |-> BitsK(t \div b, ChunkBits) \o rest.bits, rem |-> rest.rem]

\* a / b for integers a >= 0, b > 0
FloatDiv(a, b) ==
    IF a = 0 THEN FloatZero
    ELSE LET frac == FracBits(a % b, b, FracChunks)
             all == Bin(a \div b) \o frac.bits
             lead == CHOOSE i \in 1..Len(all) :
                         all[i] = 1 /\ \A j \in 1..(i - 1) : all[j] = 0
             sig == SubSeq(all, lead, Len(all))
         IN  RoundNearestEven(
                 SubSeq(sig, 1, FloatPrec),
                 sig[FloatPrec + 1],
                 frac.rem > 0 \/ \E i \in (FloatPrec + 2)..Len(sig) : sig[i] = 1,
                 Len(sig) - FloatPrec - FracChunks * ChunkBits)

\* the bits of n * bits + carry
RECURSIVE MulBits(_, _, _)
MulBits(bits, n, carry) ==
    IF bits = <<>> THEN Bin(carry)
    ELSE LET k == IF Len(bits) < ChunkBits THEN Len(bits) ELSE ChunkBits
             t == BitsValue(SubSeq(bits, Len(bits) - k + 1, Len(bits))) * n + carry
         IN  MulBits(SubSeq(bits, 1, Len(bits) - k), n, t \div Pow2(k))
                 \o BitsK(t % Pow2(k), k)

\* n * f for an integer n >= 0
FloatMulNat(n, f) ==
    IF n = 0 \/ f = FloatZero THEN FloatZero
    ELSE LET prod == MulBits(f.m, n, 0)
             extra == Len(prod) - FloatPrec
         IN  RoundNearestEven(
                 SubSeq(prod, 1, FloatPrec),
                 IF extra >= 1 THEN prod[FloatPrec + 1] ELSE 0,
                 \E i \in (FloatPrec + 2)..Len(prod) : prod[i] = 1,
                 f.e + extra)

\* int(f) for f >= 0
FloatTrunc(f) ==
    IF f = FloatZero \/ FloatPrec + f.e <= 0 THEN 0
    ELSE IF f.e <= 0 THEN BitsValue(SubSeq(f.m, 1, FloatPrec + f.e))
    ELSE BitsValue(f.m) * Pow2(f.e)

\* int(v * scale) for an integer v: Python truncates toward zero
IntOfScaled(v, scale) ==
    IF v >= 0 THEN FloatTrunc(FloatMulNat(v, scale))
    ELSE 0 - FloatTrunc(FloatMulNat(0 - v, scale))

\* ------------------------------------------------------------------------
\* Point-to-pixel conversion: _crop_and_save lines 50-78, and the same
\* arithmetic inline in extract_and_save_answers lines 286-300.
\* bbox is <<x1, y1, x2, y2>> in points with the origin bottom-left.
\* ------------------------------------------------------------------------
ClampUpperOnly(v, hi) == Min(v, hi)

Clamp(v, hi) == Max(0, Min(v, hi))

\* lines 54-68: scale, flip y, clamp
PixelBox(bbox, page_width, page_height, img_w, img_h) ==
    LET scale_x == FloatDiv(img_w, page_width)
        scale_y == FloatDiv(img_h, page_height)
        x0_px == IntOfScaled(bbox[1], scale_x)
        x1_px == IntOfScaled(bbox[3], scale_x)
        y0_px == IntOfScaled(page_height - bbox[4], scale_y)
        y1_px == IntOfScaled(page_height - bbox[2], scale_y)
    IN  <<Clamp(x0_px, img_w), Clamp(y0_px, img_h),
          Clamp(x1_px, img_w), Clamp(y1_px, img_h)>>

\* lines 70-74 and 300: the crop is made
KeepsCrop(box) ==
    /\ box[3] > box[1]
    /\ box[4] > box[2]
    /\ box[3] - box[1] >= 20
    /\ box[4] - box[2] >= 10

PageSizesPt == {<<300, 400>>, <<595, 842>>, <<600, 800>>, <<612, 792>>}
ImageSizesPx == {<<834, 1112>>, <<1654, 2339>>, <<1200, 1600>>, <<1700, 2200>>}

\* the whole page, cells inside it, and cells partly or wholly outside it
BBoxesOf(pw, ph) ==
    { <<0, 0, pw, ph>>,
      <<100, 100, 250, 130>>,
      <<100, 100, 105, 130>>,
      <<100, 100, 250, 102>>,
      <<0 - 20, 0 - 30, 80, 90>>,
      <<pw - 50, ph - 40, pw + 60, ph + 70>>,
      <<pw + 10, 100, pw + 90, 200>> }

PixelInit ==
    /\ px_pc = "ready"
    /\ \E ps \in PageSizesPt, is \in ImageSizesPx :
         \E b \in BBoxesOf(ps[1], ps[2]) :
           px_in = [bbox |-> b, page_width |-> ps[1], page_height |-> ps[2],
                    img_w |-> is[1], img_h |-> is[2]]
    /\ px_box = <<0, 0, 0, 0>>
    /\ px_saved = FALSE
    /\ SegIdle
    /\ StIdle
    /\ TbIdle
    /\ CrIdle
    /\ GnIdle
    /\ UpIdle
    /\ RrIdle

\* _crop_and_save lines 50-78
CropAndSave ==
    /\ px_pc = "ready"
    /\ px_box' = PixelBox(px_in.bbox, px_in.page_width, px_in.page_height,
                          px_in.img_w, px_in.img_h)
    /\ px_saved' = KeepsCrop(px_box')
    /\ px_pc' = "done"
    /\ UNCHANGED <<px_in, notPx>>

PixelNext == CropAndSave

SpecPixel == PixelInit /\ [][PixelNext]_vars

\* ------------------------------------------------------------------------
\* Answer/steps extractor, the table loop: extract_and_save_answers lines
\* 118-249.  A text is its sequence of characters; "a~" stands for the
\* letter a-breve of "Raspuns".
\* ------------------------------------------------------------------------
UpperChars == <<"A", "B", "C", "D", "E", "F", "G", "H", "I", "J", "K", "L", "M",
                "N", "O", "P", "Q", "R", "S", "T", "U", "V", "W", "X", "Y", "Z">>
LowerChars == <<"a", "b", "c", "d", "e", "f", "g", "h", "i", "j", "k", "l", "m",
                "n", "o", "p", "q", "r", "s", "t", "u", "v", "w", "x", "y", "z">>

IsLower(c) == \E i \in 1..26 : LowerChars[i] = c

\* str.lower()
Lower(text) ==
    [i \in 1..Len(text) |->
        IF \E k \in 1..26 : UpperChars[k] = text[i]
        THEN LowerChars[CHOOSE k \in 1..26 : UpperChars[k] = text[i]]
        ELSE text[i]]

\* pat in text
Contains(text, pat) ==
    \E i \in 1..(Len(text) - Len(pat) + 1) : SubSeq(text, i, i + Len(pat) - 1) = pat

\* str.strip()
Strip(text) ==
    LET inked == {i \in 1..Len(text) : text[i] # " "}
    IN  IF inked = {} THEN <<>>
        ELSE SubSeq(text, CHOOSE i \in inked : \A j \in inked : i <= j,
                          CHOOSE i \in inked : \A j \in inked : i >= j)

\* lines 153 and 156: the substrings that identify a header cell
AnswerPats == { <<"r", "a~", "s", "p", "u", "n", "s">>, <<"c", "o", "r", "e", "c", "t">> }
StepsPats == { <<"e", "t", "a", "p", "e">>, <<"r", "e", "z", "o", "l", "v">> }

\* lines 151-158: the last column of the row whose lowered text contains one
\* of the substrings, None if there is none
HeaderCol(row, pats) ==
    LET hits == {i \in 1..Len(row) : \E q \in pats : Contains(Lower(row[i]), q)}
    IN  IF hits = {} THEN None
        ELSE (CHOOSE i \in hits : \A j \in hits : i >= j) - 1

\* EXERCISE_NUM_RE = ^(\d{1,2})([a-z])?[\.\)] after d digits
MarkerTail(s, d) ==
    \/ Len(s) >= d + 1 /\ s[d + 1] \in {".", ")"}
    \/ Len(s) >= d + 2 /\ IsLower(s[d + 1]) /\ s[d + 2] \in {".", ")"}

\* lines 29-38
_extract_exercise_number(text) ==
    LET s == Strip(text)
    IN  IF text = <<>> \/ s = <<>> \/ ~IsDigit(s[1]) THEN None
        ELSE IF Len(s) >= 2 /\ IsDigit(s[2])
             THEN IF MarkerTail(s, 2)
                  THEN 10 * DigitVal(s[1]) + DigitVal(s[2]) ELSE None
             ELSE IF MarkerTail(s, 1) THEN DigitVal(s[1]) ELSE None

\* lines 163-168: a column index of the previous tables is reused only
\* inside this table's columns
ReusableColUnchecked(last, ncols) == last

ReusableCol(last, ncols) ==
    IF last # None /\ last < ncols THEN last ELSE None

\* line 198
StartRow(a_col, s_col, last_a, last_s, idx) ==
    IF a_col = last_a /\ s_col = last_s /\ idx > 0 THEN 0 ELSE 1

\* lines 201-216: the rows from row_idx on, grouped by exercise
\* (row_idx counts from 0); cur is current_ex, rows_of is exercise_rows
RECURSIVE WalkRows(_, _, _, _)
WalkRows(rows, row_idx, cur, rows_of) ==
    IF row_idx >= Len(rows) THEN [current_ex |-> cur, exercise_rows |-> rows_of]
    ELSE LET ex_num == _extract_exercise_number(rows[row_idx + 1][1])
         IN  IF ex_num # None
             THEN WalkRows(rows, row_idx + 1, ex_num,
                    [n \in DOMAIN rows_of \cup {ex_num} |->
                        IF n = ex_num
                        THEN Append(IF n \in DOMAIN rows_of THEN rows_of[n] ELSE <<>>,
                                    row_idx)
                        ELSE rows_of[n]])
             ELSE IF cur # None
             THEN WalkRows(rows, row_idx + 1, cur,
                    [rows_of EXCEPT ![cur] = Append(@, row_idx)])
             ELSE WalkRows(rows, row_idx + 1, cur, rows_of)

\* lines 240-242: the cells of one column at the rows of an exercise
CellsAtEveryRow(t, idx, row_indices, col) ==
    IF col = None THEN <<>>
    ELSE [i \in 1..Len(t.rows) |->
             [table |-> idx, page |-> t.page, row |-> i - 1, col |-> col]]

CellsAt(t, idx, row_indices, col) ==
    IF col = None THEN <<>>
    ELSE LET inside == SelectSeq(row_indices,
                          LAMBDA r : r < Len(t.rows) /\ col < Len(t.rows[r + 1]))
         IN  [i \in 1..Len(inside) |->
                 [table |-> idx, page |-> t.page, row |-> inside[i], col |-> col]]

\* lines 228-249
Collected(all, t, idx, rows_of, a_col, s_col) ==
    [n \in DOMAIN all \cup DOMAIN rows_of |->
        IF n \notin DOMAIN rows_of THEN all[n]
        ELSE LET old == IF n \in DOMAIN all THEN all[n]
                        ELSE [answer_cells |-> <<>>, steps_cells |-> <<>>,
                              page |-> t.page]
             IN  [answer_cells |-> old.answer_cells \o CellsAt(t, idx, rows_of[n], a_col),
                  steps_cells |-> old.steps_cells \o CellsAt(t, idx, rows_of[n], s_col),
                  page |-> old.page]]

\* the texts of the cells
TxtEx == <<"E", "x">>
TxtAnswer == <<"R", "a~", "s", "p", "u", "n", "s", " ", "c", "o", "r", "e", "c", "t">>
TxtSteps == <<"E", "t", "a", "p", "e", " ", "r", "e", "z", "o", "l", "v", "a", "r", "e">>
TxtData == <<"A">>
TxtOne == <<"1", ".">>
TxtTwoA == <<"2", "a", ")">>
TxtBlank == <<>>

HeaderRows == { <<TxtEx, TxtAnswer>>, <<TxtEx, TxtAnswer, TxtSteps>> }

\* the first cells of the data rows under a header, and of a table without one
FirstCellsUnderHeader == { <<>>, <<TxtOne>>, <<TxtOne, TxtBlank>> }
FirstCellsNoHeader == { <<TxtBlank>>, <<TxtOne>>, <<TxtBlank, TxtTwoA>> }

DataRows(firsts, ncols) ==
    [i \in 1..Len(firsts) |-> [c \in 1..ncols |-> IF c = 1 THEN firsts[i] ELSE TxtData]]

\* table.df of a table: with a header row, or data rows only, or a single
\* row that starts with a marker and has the answer wording in its second cell
TableRows ==
    {<<h>> \o DataRows(f, Len(h)) : h \in HeaderRows, f \in FirstCellsUnderHeader}
    \cup {<<TxtEx, TxtSteps>>} \X {<<TxtOne, TxtData>>}
    \cup {<< <<TxtOne, TxtAnswer>> >>}
    \cup {DataRows(f, n) : f \in FirstCellsNoHeader, n \in {2, 3}}
    \cup {DataRows(<<TxtBlank>>, 1)}

TablesInit ==
    /\ tb_pc = "tables"
    /\ ntables \in 0..MaxTables
    /\ table_idx = 0
    /\ table = NoTable
    /\ answer_col = None /\ steps_col = None /\ start_row = 0
    /\ last_answer_col = None /\ last_steps_col = None
    /\ pending_exercise = None
    /\ all_exercises = NoExercises
    /\ SegIdle
    /\ StIdle
    /\ PxIdle
    /\ CrIdle
    /\ GnIdle
    /\ UpIdle
    /\ RrIdle

\* lines 131-249: one iteration of `for table_idx, table in enumerate(tables)`
ProcessTable(t) ==
    /\ tb_pc = "tables"
    /\ table_idx < ntables
    /\ table' = t
    /\ table_idx' = table_idx + 1
    /\ LET header_row == t.rows[1]
           found_a == HeaderCol(header_row, AnswerPats)
           found_s == HeaderCol(header_row, StepsPats)
           reuse == found_a = None /\ found_s = None
                      /\ (last_answer_col # None \/ last_steps_col # None)
           a_col == IF reuse THEN ReusableCol(last_answer_col, Len(header_row))
                    ELSE found_a
           s_col == IF reuse THEN ReusableCol(last_steps_col, Len(header_row))
                    ELSE found_s
       IN  /\ answer_col' = a_col
           /\ steps_col' = s_col
           /\ IF a_col = None /\ s_col = None
              THEN UNCHANGED <<start_row, last_answer_col, last_steps_col,
                               pending_exercise, all_exercises>>
              ELSE LET last_a == IF a_col # None THEN a_col ELSE last_answer_col
                       last_s == IF s_col # None THEN s_col ELSE last_steps_col
                       first == StartRow(a_col, s_col, last_a, last_s, table_idx)
                       walk == WalkRows(t.rows, first,
                                 pending_exercise,
                                 IF pending_exercise # None
                                 THEN [n \in {pending_exercise} |-> <<>>]
                                 ELSE NoExercises)
                   IN  /\ last_answer_col' = last_a
                       /\ last_steps_col' = last_s
                       /\ start_row' = first
                       /\ pending_exercise' =
                            IF walk.current_ex # None /\ table_idx < ntables - 1
                            THEN walk.current_ex ELSE None
                       /\ all_exercises' =
                            Collected(all_exercises, t, table_idx, walk.exercise_rows,
                                      a_col, s_col)
    /\ UNCHANGED <<tb_pc, ntables, notTb>>

\* the tables are exhausted (line 251)
EndTables ==
    /\ tb_pc = "tables"
    /\ table_idx = ntables
    /\ tb_pc' = "done"
    /\ UNCHANGED <<ntables, table_idx, table, answer_col, steps_col, start_row,
                   last_answer_col, last_steps_col, pending_exercise, all_exercises,
                   notTb>>

TablesNext ==
    \/ \E r \in TableRows : ProcessTable([page |-> table_idx + 1, rows |-> r])
    \/ EndTables

SpecTables == TablesInit /\ [][TablesNext]_vars

\* ------------------------------------------------------------------------
\* Answer/steps extractor, the images of one exercise: extract_and_save_answers
\* lines 254-377.  A collected cell is its box in points and its page.
\* ------------------------------------------------------------------------
KeepsCropAnySize(box) == box[3] > box[1] /\ box[4] > box[2]

\* lines 300 and 358
KeepsPageCrop(box) == KeepsCrop(box)

\* table.pdf_size and the size of every page image
CropPagePt == <<595, 842>>
CropImagePx == <<1654, 2339>>

\* the rows of the exercise: page and (y1, y2) in points, bottom-left origin:
\* a tall row and two adjacent short rows
RowSpans == { <<700, 730>>, <<698, 700>>, <<695, 698>> }

CropPages == {1, 2}

Rows == [page : CropPages, span : RowSpans]

\* the rows are collected table by table, so their pages do not decrease
RowLists ==
    {rs \in SeqsUpTo(Rows, MaxCells) :
        \A i \in 1..(Len(rs) - 1) : rs[i].page <= rs[i + 1].page}

\* (x1, x2) of a column in points: wide, narrow, exactly 20 pixels
ColumnSpans == { <<100, 250>>, <<100, 105>>, <<100, 107>> }

\* the column was not identified (answer_col or steps_col is None)
NoColumn == <<>>

ColumnChoices == ColumnSpans \cup {NoColumn}

\* lines 242 and 249: the cells of a column at the rows of the exercise
CellsOfColumn(rows, xs) ==
    IF xs = NoColumn THEN <<>>
    ELSE [i \in 1..Len(rows) |->
            [box |-> <<xs[1], rows[i].span[1], xs[2], rows[i].span[2]>>,
             page |-> rows[i].page]]

\* lines 264-268: cells_by_page[p]["cells"]
CellsOnPage(cells, p) == SelectSeq(cells, LAMBDA c : c.page = p)

\* lines 278-282
MergedBox(cells) ==
    LET ix == 1..Len(cells)
    IN  << CHOOSE v \in {cells[i].box[1] : i \in ix} : \A i \in ix : v <= cells[i].box[1],
           CHOOSE v \in {cells[i].box[2] : i \in ix} : \A i \in ix : v <= cells[i].box[2],
           CHOOSE v \in {cells[i].box[3] : i \in ix} : \A i \in ix : v >= cells[i].box[3],
           CHOOSE v \in {cells[i].box[4] : i \in ix} : \A i \in ix : v >= cells[i].box[4] >>

\* lines 286-298: the pixel box of the merged cells of page p
PageBox(cells, p) ==
    PixelBox(MergedBox(CellsOnPage(cells, p)), CropPagePt[1], CropPagePt[2],
             CropImagePx[1], CropImagePx[2])

\* lines 300-302: the crop of page p, appended if it is large enough
CropIfKept(p, box) ==
    IF KeepsPageCrop(box)
    THEN << [page |-> p, box |-> box,
             width |-> box[3] - box[1], height |-> box[4] - box[2]] >>
    ELSE <<>>

\* lines 272-302: the crops of the pages in ascending order, starting at page p
RECURSIVE PageCropsFrom(_, _)
PageCropsFrom(cells, p) ==
    IF p > Len(cells) + 2 THEN <<>>
    ELSE IF CellsOnPage(cells, p) = <<>> THEN PageCropsFrom(cells, p + 1)
    ELSE CropIfKept(p, PageBox(cells, p)) \o PageCropsFrom(cells, p + 1)

\* lines 305-316
FinalImage(crops) ==
    IF Len(crops) = 1 THEN [width |-> crops[1].width, height |-> crops[1].height]
    ELSE Canvas([i \in 1..Len(crops) |->
                    [width |-> crops[i].width, height |-> crops[i].height]], 0)

CropInit ==
    /\ cr_pc = "answer"
    /\ \E rows \in RowLists, xa \in ColumnChoices, xs \in ColumnChoices :
         data = [answer_cells |-> CellsOfColumn(rows, xa),
                 steps_cells |-> CellsOfColumn(rows, xs)]
    /\ page_crops = [k \in Kinds |-> <<>>]
    /\ final_image = [k \in Kinds |-> NoImage]
    /\ saved = [k \in Kinds |-> FALSE]
    /\ SegIdle
    /\ StIdle
    /\ PxIdle
    /\ TbIdle
    /\ GnIdle
    /\ UpIdle
    /\ RrIdle

\* lines 305-320 and 362-376: the image is built and saved if there are crops
SaveBlock(kind, crops) ==
    /\ page_crops' = [page_crops EXCEPT ![kind] = crops]
    /\ final_image' = [final_image EXCEPT ![kind] =
                          IF crops = <<>> THEN NoImage ELSE FinalImage(crops)]
    /\ saved' = [saved EXCEPT ![kind] = crops # <<>>]

\* lines 262-320 for the answer cells, 324-376 for the steps cells
CropBlock(kind, cells) ==
    SaveBlock(kind, IF cells = <<>> THEN <<>> ELSE PageCropsFrom(cells, 1))

AnswerBlock ==
    /\ cr_pc = "answer"
    /\ CropBlock("answer", data.answer_cells)
    /\ cr_pc' = "steps"
    /\ UNCHANGED <<data, notCr>>

StepsBlock ==
    /\ cr_pc = "steps"
    /\ CropBlock("steps", data.steps_cells)
    /\ cr_pc' = "done"
    /\ UNCHANGED <<data, notCr>>

CropNext == AnswerBlock \/ StepsBlock

SpecCrop == CropInit /\ [][CropNext]_vars

\* ------------------------------------------------------------------------
\* Test generation: test_generation_service.py, generate_test lines 30-75.
\* A question is [id, type, language, question_number].
\* ------------------------------------------------------------------------
\* list(range(1, 13))
REQUIRED_QUESTION_NUMBERS == 1..12

\* lines 42-50: the stored questions of the requested type and language with
\* this number
CandidatesAnyLanguage(qs, req, n) ==
    {q \in qs : q.type = req.type /\ q.question_number = n}

Candidates(qs, req, n) ==
    {q \in qs : q.type = req.type /\ q.language = req.language
                /\ q.question_number = n}

\* the autoincrement id of a new row
NextId(rows) ==
    IF rows = {} THEN 1
    ELSE 1 + (CHOOSE i \in {r.id : r \in rows} : \A r \in rows : i >= r.id)

Requests == [type : {"math"}, language : {"ro"}]

\* one question of the requested type and language for every number
BaseQuestions ==
    {[id |-> n, type |-> "math", language |-> "ro", question_number |-> n] :
        n \in REQUIRED_QUESTION_NUMBERS}

\* numbers whose question is missing
AbsentChoices == {a \in SUBSET REQUIRED_QUESTION_NUMBERS : Cardinality(a) <= MaxAbsent}

\* further stored questions: second candidates for numbers 1 and 12, and
\* questions of another type or language
ExtraQuestions ==
    { [id |-> 13, type |-> "math", language |-> "ro", question_number |-> 1],
      [id |-> 14, type |-> "math", language |-> "ro", question_number |-> 12],
      [id |-> 15, type |-> "physics", language |-> "ro", question_number |-> 5],
      [id |-> 16, type |-> "math", language |-> "ru", question_number |-> 5] }

GenInit ==
    /\ gn_pc = "select"
    /\ request \in Requests
    /\ \E absent \in AbsentChoices, extra \in SUBSET ExtraQuestions :
         questions = {q \in BaseQuestions : q.question_number \notin absent} \cup extra
    /\ q_num = 1
    /\ selected_questions = <<>>
    /\ tests = {}
    /\ test_questions = {}
    /\ SegIdle
    /\ StIdle
    /\ PxIdle
    /\ TbIdle
    /\ CrIdle
    /\ UpIdle
    /\ RrIdle

\* lines 41-58, one iteration with candidates: random.choice
SelectQuestion(q) ==
    /\ gn_pc = "select"
    /\ q_num \in REQUIRED_QUESTION_NUMBERS
    /\ q \in Candidates(questions, request, q_num)
    /\ selected_questions' = Append(selected_questions, q)
    /\ q_num' = q_num + 1
    /\ UNCHANGED <<gn_pc, request, questions, tests, test_questions, notGn>>

\* lines 52-56: no candidates
RaiseValueError ==
    /\ gn_pc = "select"
    /\ q_num \in REQUIRED_QUESTION_NUMBERS
    /\ Candidates(questions, request, q_num) = {}
    /\ gn_pc' = "raised"
    /\ UNCHANGED <<request, questions, q_num, selected_questions, tests,
                   test_questions, notGn>>

\* lines 61-74: the test and its rows are added and committed
PersistTest ==
    /\ gn_pc = "select"
    /\ q_num \notin REQUIRED_QUESTION_NUMBERS
    /\ tests' = tests \cup {[id |-> NextId(tests), type |-> request.type,
                             language |-> request.language]}
    /\ test_questions' = test_questions \cup
          {[test_id |-> NextId(tests), question_id |-> selected_questions[p].id,
            position |-> p] : p \in 1..Len(selected_questions)}
    /\ gn_pc' = "returned"
    /\ UNCHANGED <<request, questions, q_num, selected_questions, notGn>>

GenNext ==
    \/ \E q \in questions : SelectQuestion(q)
    \/ RaiseValueError
    \/ PersistTest

SpecGen == GenInit /\ [][GenNext]_vars

\* ------------------------------------------------------------------------
\* An upload: routers/extraction.py (upload_and_extract_pdf lines 37-67,
\* upload_and_extract_barem lines 97-133) and the services they call,
\* extract_and_save_questions (pdf_extraction_math_service.py lines 218-295)
\* and extract_and_save_answers (answer_extraction_math_service.py lines
\* 94-467).  A stored question is [id, question_number, path, answer_id], a
\* stored answer [id, path_to_answer, question_number]; a path is the
\* directory of its document and the file in it.
\* ------------------------------------------------------------------------
Uploads ==
    [endpoint : {"pdf", "barem"}, ends_pdf : BOOLEAN, has_barem : BOOLEAN,
     empty : BOOLEAN]

\* extraction.py lines 38-51 and 98-118: the detail of the rejection, "" if
\* the upload passes
RejectionNoBaremTest(u) ==
    IF ~u.ends_pdf THEN "Only PDF files are allowed"
    ELSE IF u.empty THEN "Empty file provided"
    ELSE ""

Rejection(u) ==
    IF ~u.ends_pdf THEN "Only PDF files are allowed"
    ELSE IF u.endpoint = "barem" /\ ~u.has_barem
         THEN "File must be a barem PDF (filename should contain '_barem')"
    ELSE IF u.empty THEN "Empty file provided"
    ELSE ""

\* pdf_stem of the upload, and the stem of another document that contains it
RunStem == <<"t", "1">>
OtherStem == <<"t", "1", "2">>

ImagePath(stem, number, kind) == [dir |-> stem, file |-> <<number, kind>>]

NoPath == [dir |-> <<>>, file |-> <<0, "none">>]

StoredQuestion(id, number, stem, answer_id) ==
    [id |-> id, question_number |-> number,
     path |-> ImagePath(stem, number, "question"), answer_id |-> answer_id]

StoredAnswer(id, path, number) ==
    [id |-> id, path_to_answer |-> path, question_number |-> number]

\* the store before the upload: empty; the questions of this document; a
\* question that already has an answer; two questions with the same number;
\* a question of another document whose name contains this one's
StoreChoices ==
    { NoStore,
      [questions |-> {StoredQuestion(1, 1, RunStem, None),
                      StoredQuestion(2, 2, RunStem, None)},
       answers |-> {}],
      [questions |-> {StoredQuestion(1, 1, RunStem, 1)},
       answers |-> {StoredAnswer(1, ImagePath(OtherStem, 1, "answer"), 1)}],
      [questions |-> {StoredQuestion(1, 1, RunStem, None),
                      StoredQuestion(2, 1, RunStem, None)},
       answers |-> {}],
      [questions |-> {StoredQuestion(1, 1, OtherStem, None)},
       answers |-> {}] }

UploadInit ==
    /\ up_pc = "request"
    /\ upload \in Uploads
    /\ http_detail = ""
    /\ tmp_exists = FALSE
    /\ dir_exists = FALSE
    /\ files = {}
    /\ page_px = <<0, 0>>
    /\ steps_pt = 0
    /\ ex_idx = 0
    /\ saved_count = 0
    /\ saved_items = <<>>
    /\ db \in StoreChoices
    /\ session = db
    /\ result = NoResult
    /\ printed = {}
    /\ SegIdle
    /\ StIdle
    /\ PxIdle
    /\ TbIdle
    /\ CrIdle
    /\ GnIdle
    /\ RrIdle

\* the variables of the other pipelines that an upload never touches
upOthers == <<stVars, pxVars, gnVars, rrVars>>

upSegRest == <<pc, pages, page_idx, nwords, word, open_ex, last_num, in_order, marks>>

\* extraction.py lines 38-51 and 98-118
ValidateUpload ==
    /\ up_pc = "request"
    /\ http_detail' = Rejection(upload)
    /\ up_pc' = IF Rejection(upload) = "" THEN "write_tmp" ELSE "rejected"
    /\ UNCHANGED <<upload, tmp_exists, dir_exists, files, page_px, steps_pt, ex_idx,
                   saved_count, saved_items, db, session, result, printed,
                   segVars, tbVars, crVars, upOthers>>

\* lines 221-223 and 94-96: the temporary copy is written
WriteTmp ==
    /\ up_pc = "write_tmp"
    /\ tmp_exists' = TRUE
    /\ up_pc' = "mkdir"
    /\ UNCHANGED <<upload, http_detail, dir_exists, files, page_px, steps_pt, ex_idx,
                   saved_count, saved_items, db, session, result, printed,
                   segVars, tbVars, crVars, upOthers>>

\* lines 221-222 and 94-95: tmp_pdf.write raises; the file was created with
\* delete=False and the statement is outside the try, so the exception leaves
\* the service
WriteTmpFails ==
    /\ up_pc = "write_tmp"
    /\ tmp_exists' = TRUE
    /\ up_pc' = "crashed"
    /\ UNCHANGED <<upload, http_detail, dir_exists, files, page_px, steps_pt, ex_idx,
                   saved_count, saved_items, db, session, result, printed,
                   segVars, tbVars, crVars, upOthers>>

\* lines 227-229 and 99-102
MakeOutputDir ==
    /\ up_pc = "mkdir"
    /\ dir_exists' = TRUE
    /\ up_pc' = IF upload.endpoint = "pdf" THEN "detect" ELSE "read"
    /\ UNCHANGED <<upload, http_detail, tmp_exists, files, page_px, steps_pt, ex_idx,
                   saved_count, saved_items, db, session, result, printed,
                   segVars, tbVars, crVars, upOthers>>

\* pdf_extraction_math_service.py lines 71-72, for whole points
_pt_to_px(pt, page_h_pt, img_h) == (pt * img_h) \div page_h_pt

SliceBetweenAnyHeight(y_top_px, y_bot_px, img_w) ==
    << [width |-> img_w, height |-> y_bot_px - y_top_px] >>

\* render_exercise lines 164-167
SliceBetween(y_top_px, y_bot_px, img_w) ==
    IF y_bot_px - y_top_px < 4 THEN <<>>
    ELSE << [width |-> img_w, height |-> y_bot_px - y_top_px] >>

\* render_exercise lines 158-162
SliceOf(range, page_h_pt, px) ==
    SliceBetween(Max(0, _pt_to_px(range.y_top_pt, page_h_pt, px[2])),
                 Min(px[2], _pt_to_px(range.y_bot_pt, page_h_pt, px[2])),
                 px[1])

\* render_exercise lines 153-167
RECURSIVE RenderSlices(_, _, _)
RenderSlices(spans, i, px) ==
    IF i > Len(spans) THEN <<>>
    ELSE SliceOf(PaddedRange(spans[i]), spans[i].page_height, px)
            \o RenderSlices(spans, i + 1, px)

\* render_exercise lines 169-190
Rendered(sl) ==
    IF sl = <<>> THEN NoImage
    ELSE IF Len(sl) = 1 THEN sl[1]
    ELSE Canvas(sl, STITCH_SEP_PX)

render_exercise(ex, px) == Rendered(RenderSlices(ex.spans, 1, px))

\* what find_exercise_boundaries returns: exercises 1..n, each on one page
\* 800 points high, down to the page end or 10 points high
RunSpanBottoms == {800, 60}

RunExercisesOf(bottoms) ==
    [i \in 1..Len(bottoms) |->
        SetBottom(_new_exercise(i, 0, 50, 800, 600), bottoms[i])]

RunExerciseLists ==
    {RunExercisesOf(b) : b \in SeqsUpTo(RunSpanBottoms, MaxRunExercises)}

\* the page images at 200 dpi, and at a resolution where a short span is
\* less than 4 pixels high
RunPagePx == { <<1654, 2339>>, <<75, 100>> }

FailedResult == [success |-> FALSE, message |-> <<"Error">>, saved |-> 0, items |-> <<>>]

\* lines 232-239: find_exercise_boundaries, and the return if it found none;
\* the finally clause removes the temporary copy
FindBoundaries(exs) ==
    /\ up_pc = "detect"
    /\ exercises' = exs
    /\ IF exs = <<>>
       THEN /\ result' = [success |-> FALSE,
                          message |-> <<"No exercises detected in PDF">>,
                          saved |-> 0, items |-> <<>>]
            /\ tmp_exists' = FALSE
            /\ up_pc' = "returned"
       ELSE /\ up_pc' = "render"
            /\ UNCHANGED <<result, tmp_exists>>
    /\ UNCHANGED <<upload, http_detail, dir_exists, files, page_px, steps_pt, ex_idx,
                   saved_count, saved_items, db, session, printed,
                   upSegRest, tbVars, crVars, upOthers>>

\* line 242
RenderPages(px) ==
    /\ up_pc = "render"
    /\ page_px' = px
    /\ up_pc' = "exercises"
    /\ UNCHANGED <<upload, http_detail, tmp_exists, dir_exists, files, steps_pt, ex_idx,
                   saved_count, saved_items, db, session, result, printed,
                   segVars, tbVars, crVars, upOthers>>

\* lines 253-274: the image is saved and the question is added to the session
AddQuestion(ex, path) ==
    /\ files' = files \cup {<<ex.number, "question">>}
    /\ session' = [session EXCEPT !.questions =
                       @ \cup {[id |-> NextId(session.questions),
                                question_number |-> ex.number,
                                path |-> path, answer_id |-> None]}]
    /\ saved_count' = saved_count + 1
    /\ saved_items' = Append(saved_items, [number |-> ex.number, path |-> path])

\* lines 248-274: one iteration of `for ex in exercises`
SaveQuestionWith(ex, img) ==
    /\ ex_idx' = ex_idx + 1
    /\ IF img = NoImage
       THEN UNCHANGED <<files, session, saved_count, saved_items>>
       ELSE AddQuestion(ex, ImagePath(RunStem, ex.number, "question"))

SaveQuestion ==
    /\ up_pc = "exercises"
    /\ ex_idx < Len(exercises)
    /\ SaveQuestionWith(exercises[ex_idx + 1],
                        render_exercise(exercises[ex_idx + 1], page_px))
    /\ UNCHANGED <<up_pc, upload, http_detail, tmp_exists, dir_exists, page_px,
                   steps_pt, db, result, printed,
                   segVars, tbVars, crVars, upOthers>>

\* lines 276-284, then the finally clause
CommitQuestions ==
    /\ up_pc = "exercises"
    /\ ex_idx = Len(exercises)
    /\ db' = session
    /\ result' = [success |-> TRUE, message |-> <<"Successfully extracted", saved_count>>,
                  saved |-> saved_count, items |-> saved_items]
    /\ tmp_exists' = FALSE
    /\ up_pc' = "returned"
    /\ UNCHANGED <<upload, http_detail, dir_exists, files, page_px, steps_pt, ex_idx,
                   saved_count, saved_items, session, printed,
                   segVars, tbVars, crVars, upOthers>>

\* the tables camelot finds in an answer key: header with both columns and
\* exercise 1; header with the answer column only; a continuation without
\* header; header with the steps column only
RunTableRows ==
    { <<<<TxtEx, TxtAnswer, TxtSteps>>>> \o DataRows(<<TxtOne>>, 3),
      <<<<TxtEx, TxtAnswer>>>> \o DataRows(<<TxtOne>>, 2),
      DataRows(<<TxtBlank, TxtTwoA>>, 3),
      <<<<TxtEx, TxtSteps>>>> \o DataRows(<<TxtOne>>, 2) }

\* width in points of the third column: wide, or too narrow for a crop
RunStepsWidths == {250, 5}

\* lines 104-127: the pages are rendered and the tables are read
ReadTables(n, w) ==
    /\ up_pc = "read"
    /\ page_px' = CropImagePx
    /\ steps_pt' = w
    /\ ntables' = n
    /\ tb_pc' = "tables"
    /\ up_pc' = "answers"
    /\ UNCHANGED <<upload, http_detail, tmp_exists, dir_exists, files, ex_idx,
                   saved_count, saved_items, db, session, result, printed,
                   table_idx, table, answer_col, steps_col, start_row,
                   last_answer_col, last_steps_col, pending_exercise, all_exercises,
                   segVars, crVars, upOthers>>

\* the box (x1, y1, x2, y2) in points of the cell at a row and column of the
\* table grid, origin bottom-left
GridBox(row, col, w) ==
    << IF col = 0 THEN 50 ELSE IF col = 1 THEN 100 ELSE 250,
       750 - 30 * row,
       IF col = 0 THEN 100 ELSE IF col = 1 THEN 250 ELSE 250 + w,
       780 - 30 * row >>

\* lines 241-242: table.cells[row_idx][answer_col] with its page
CellGeometry(cells, w) ==
    [i \in 1..Len(cells) |->
        [box |-> GridBox(cells[i].row, cells[i].col, w), page |-> cells[i].page]]

\* line 254: the k-th key of sorted(all_exercises.keys())
NthKey(f, k) ==
    CHOOSE n \in DOMAIN f : Cardinality({m \in DOMAIN f : m < n}) = k - 1

\* lines 271-302
CropsOf(cells) == IF cells = <<>> THEN <<>> ELSE PageCropsFrom(cells, 1)

\* lines 397-400: the stored questions with this number whose path contains
\* the stem
MatchingQuestions(sess, ex) ==
    {q \in sess.questions :
        q.question_number = ex /\ Contains(q.path.dir, RunStem)}

\* db.add(AnswerDB(...)); db.flush()
CreateAnswer(sess, path, ex) ==
    [sess EXCEPT !.answers = @ \cup {StoredAnswer(NextId(sess.answers), path, ex)}]

\* question.answer_id = answer_id
LinkTo(sess, q, answer_id) ==
    [sess EXCEPT !.questions = (@ \ {q}) \cup {[q EXCEPT !.answer_id = answer_id]}]

\* lines 414-418 and 422-426
CreateAndLink(sess, q, path, ex) ==
    LinkTo(CreateAnswer(sess, path, ex), q, NextId(sess.answers))

\* lines 408-410
UpdateAnswer(sess, answer_id, path, ex) ==
    [sess EXCEPT !.answers =
        {IF a.id = answer_id THEN StoredAnswer(answer_id, path, ex) ELSE a : a \in @}]

\* lines 402-427
Attach(sess, q, path, ex) ==
    IF q.answer_id \notin {None, 0}
    THEN IF \E a \in sess.answers : a.id = q.answer_id
         THEN UpdateAnswer(sess, q.answer_id, path, ex)
         ELSE CreateAndLink(sess, q, path, ex)
    ELSE CreateAndLink(sess, q, path, ex)

\* lines 385-444: the answer is stored, attached to the first matching
\* question if there is one, and counted
PersistAnswer(ex, answer_path, steps_path, page) ==
    /\ \/ /\ \E q \in MatchingQuestions(session, ex) :
               session' = Attach(session, q,
                                 IF answer_path # NoPath THEN answer_path ELSE steps_path,
                                 ex)
          /\ printed' = printed
       \/ /\ MatchingQuestions(session, ex) = {}
          /\ session' = CreateAnswer(session,
                                     IF answer_path # NoPath THEN answer_path ELSE steps_path,
                                     ex)
          /\ printed' = printed \cup {<<"Warning: No question found", ex>>}
    /\ saved_count' = saved_count + 1
    /\ saved_items' = Append(saved_items,
                             [exercise_number |-> ex, answer_path |-> answer_path,
                              steps_path |-> steps_path, page |-> page])

\* lines 258-444: the images of one exercise are built and saved; the block
\* that stores the answer is inside `if data["steps_cells"]:`
ExerciseImages(ex, a_cells, s_cells, a_crops, s_crops) ==
    /\ data' = [answer_cells |-> a_cells, steps_cells |-> s_cells]
    /\ page_crops' = [k \in Kinds |-> IF k = "answer" THEN a_crops ELSE s_crops]
    /\ final_image' =
          [k \in Kinds |->
              IF k = "answer"
              THEN IF a_crops = <<>> THEN NoImage ELSE FinalImage(a_crops)
              ELSE IF s_crops = <<>> THEN NoImage ELSE FinalImage(s_crops)]
    /\ saved' = [k \in Kinds |-> IF k = "answer" THEN a_crops # <<>> ELSE s_crops # <<>>]
    /\ files' = files \cup {<<ex, "answer">> : i \in 1..Min(1, Len(a_crops))}
                      \cup {<<ex, "steps">> : i \in 1..Min(1, Len(s_crops))}
    /\ IF s_cells # <<>> /\ (a_crops # <<>> \/ s_crops # <<>>)
       THEN PersistAnswer(ex,
                IF a_crops # <<>> THEN ImagePath(RunStem, ex, "answer") ELSE NoPath,
                IF s_crops # <<>> THEN ImagePath(RunStem, ex, "steps") ELSE NoPath,
                s_cells[Len(s_cells)].page)
       ELSE UNCHANGED <<session, saved_count, saved_items, printed>>

ExerciseCells(ex, a_cells, s_cells) ==
    ExerciseImages(ex, a_cells, s_cells, CropsOf(a_cells), CropsOf(s_cells))

\* lines 254-444: one iteration of `for ex_num in sorted(all_exercises.keys())`
ProcessExercise ==
    /\ up_pc = "answers"
    /\ tb_pc = "done"
    /\ ex_idx < Cardinality(DOMAIN all_exercises)
    /\ ex_idx' = ex_idx + 1
    /\ ExerciseCells(NthKey(all_exercises, ex_idx + 1),
          CellGeometry(all_exercises[NthKey(all_exercises, ex_idx + 1)].answer_cells,
                       steps_pt),
          CellGeometry(all_exercises[NthKey(all_exercises, ex_idx + 1)].steps_cells,
                       steps_pt))
    /\ UNCHANGED <<up_pc, upload, http_detail, tmp_exists, dir_exists, page_px,
                   steps_pt, db, result, cr_pc, segVars, tbVars, upOthers>>

\* lines 446-455, then the finally clause
CommitAnswers ==
    /\ up_pc = "answers"
    /\ tb_pc = "done"
    /\ ex_idx = Cardinality(DOMAIN all_exercises)
    /\ db' = session
    /\ result' = [success |-> TRUE, message |-> <<"Successfully extracted", saved_count>>,
                  saved |-> saved_count, items |-> saved_items]
    /\ tmp_exists' = FALSE
    /\ up_pc' = "returned"
    /\ UNCHANGED <<upload, http_detail, dir_exists, files, page_px, steps_pt, ex_idx,
                   saved_count, saved_items, session, printed,
                   segVars, tbVars, crVars, upOthers>>

\* the statements inside the try of either service
InTry == up_pc \in {"mkdir", "detect", "render", "exercises", "read", "answers"}

\* db.rollback()
RolledBackNot(sess, committed) == sess

RolledBack(sess, committed) == committed

\* lines 286-295 and 457-467: an exception inside the try; rollback, the
\* unsuccessful result, and the finally clause
Fail ==
    /\ InTry
    /\ session' = RolledBack(session, db)
    /\ result' = FailedResult
    /\ tmp_exists' = FALSE
    /\ up_pc' = "returned"
    /\ tb_pc' = IF tb_pc = "tables" THEN "aborted" ELSE tb_pc
    /\ UNCHANGED <<upload, http_detail, dir_exists, files, page_px, steps_pt, ex_idx,
                   saved_count, saved_items, db, printed,
                   ntables, table_idx, table, answer_col, steps_col, start_row,
                   last_answer_col, last_steps_col, pending_exercise, all_exercises,
                   segVars, crVars, upOthers>>

\* extraction.py lines 61-67 and 127-133
Respond ==
    /\ up_pc = "returned"
    /\ http_detail' = IF result.success THEN "" ELSE "500"
    /\ up_pc' = "responded"
    /\ UNCHANGED <<upload, tmp_exists, dir_exists, files, page_px, steps_pt, ex_idx,
                   saved_count, saved_items, db, session, result, printed,
                   segVars, tbVars, crVars, upOthers>>

UploadNext ==
    \/ ValidateUpload
    \/ WriteTmp
    \/ WriteTmpFails
    \/ MakeOutputDir
    \/ \E exs \in RunExerciseLists : FindBoundaries(exs)
    \/ \E px \in RunPagePx : RenderPages(px)
    \/ SaveQuestion
    \/ CommitQuestions
    \/ \E n \in 0..MaxRunTables, w \in RunStepsWidths : ReadTables(n, w)
    \/ \E r \in RunTableRows : ProcessTable([page |-> table_idx + 1, rows |-> r])
    \/ EndTables
    \/ ProcessExercise
    \/ CommitAnswers
    \/ Fail
    \/ Respond

SpecUpload == UploadInit /\ [][UploadNext]_vars

\* ------------------------------------------------------------------------
\* The same answer key uploaded twice: two calls of extract_and_save_answers
\* on one store.  The second call reads the same document, so its
\* validation, temporary copy, page images and table loop give what the
\* first call's gave; it starts with a new session and its own counters.
\* ------------------------------------------------------------------------
UploadAgain ==
    /\ up_pc = "responded"
    /\ upload.endpoint = "barem"
    /\ result.success
    /\ ~second_run
    /\ second_run' = TRUE
    /\ first_db' = db
    /\ http_detail' = ""
    /\ tmp_exists' = TRUE
    /\ session' = db
    /\ ex_idx' = 0
    /\ saved_count' = 0
    /\ saved_items' = <<>>
    /\ result' = NoResult
    /\ printed' = {}
    /\ up_pc' = "answers"
    /\ UNCHANGED <<upload, dir_exists, files, page_px, steps_pt, db,
                   segVars, stVars, pxVars, tbVars, crVars, gnVars>>

\* a valid answer key is uploaded
RerunInit ==
    /\ UploadInit
    /\ upload.endpoint = "barem"
    /\ Rejection(upload) = ""

RerunNext ==
    \/ ValidateUpload
    \/ WriteTmp
    \/ MakeOutputDir
    \/ \E n \in 0..MaxRunTables, w \in RunStepsWidths : ReadTables(n, w)
    \/ \E r \in RunTableRows : ProcessTable([page |-> table_idx + 1, rows |-> r])
    \/ EndTables
    \/ ProcessExercise
    \/ CommitAnswers
    \/ Fail
    \/ Respond
    \/ UploadAgain

SpecRerun == RerunInit /\ [][RerunNext]_vars

\* ------------------------------------------------------------------------
\* Properties of the question segmenter
\* ------------------------------------------------------------------------
\* a step of the word loop
WordStep == pc = "words" /\ pc' = "words" /\ nwords' = nwords + 1

Numbered(exs) == \A i \in 1..Len(exs) : exs[i].number = i

\* C1: when the left-anchored markers of the document are exactly 1., 2., ..., N.
\* in this order (any pages, any other words in between), the returned list
\* has exactly N exercises and the i-th has number i.
C1_SequentialMarkersYieldAll ==
    (pc = "done" /\ in_order) =>
        /\ Len(exercises) = Len(marks)
        /\ Numbered(exercises)

C1_Witness ==
    /\ pc = "done"
    /\ in_order
    /\ Len(marks) = 3
    /\ marks[1].page # marks[3].page
    /\ Len(exercises) = 3

\* C2: for any token stream the exercises are numbered 1, 2, ..., k in
\* that order, in the returned list and in every state of the scan.
C2_NumberedFromOne == Numbered(exercises)

C2_Witness ==
    /\ pc = "done"
    /\ ~in_order
    /\ Len(exercises) >= 2

\* C3: a word that matches the marker pattern but whose x0 is not left of
\* page_width * 0.20 leaves open_ex, last_num and exercises unchanged.
C3_RightOfMarginNoEffect ==
    [][(/\ WordStep
        /\ ExerciseNumMatch(word'.text) # NoMatch
        /\ word'.x0 * 100 >= page_w * LEFT_MARGIN_PCT)
       => UNCHANGED <<open_ex, last_num, exercises>>]_vars

C3_Witness ==
    /\ pc = "words"
    /\ nwords >= 1
    /\ ExerciseNumMatch(word.text) = last_num + 1
    /\ word.x0 * 100 >= page_w * LEFT_MARGIN_PCT
    /\ open_ex # NoEx

\* C4: a left-anchored marker is accepted exactly when its number is
\* last_num + 1; every other left-anchored marker leaves open_ex, last_num
\* and exercises unchanged, so the correct next number is accepted later.
C4_OnlyNextNumberAccepted ==
    [][(/\ WordStep
        /\ ExerciseNumMatch(word'.text) # NoMatch
        /\ word'.x0 * 100 < page_w * LEFT_MARGIN_PCT)
       => IF ExerciseNumMatch(word'.text) = last_num + 1
          THEN /\ last_num' = last_num + 1
               /\ open_ex'.number = last_num + 1
               /\ open_ex'.spans[1].page = page_idx
               /\ open_ex'.spans[1].y_top = word'.top
               /\ Len(exercises') = IF open_ex = NoEx THEN 0 ELSE Len(exercises) + 1
          ELSE UNCHANGED <<open_ex, last_num, exercises>>]_vars

\* the first word of a page is accepted after an earlier marker was rejected
C4_Witness ==
    /\ pc = "words"
    /\ nwords = 1
    /\ ~in_order
    /\ last_num >= 2
    /\ ExerciseNumMatch(word.text) = last_num
    /\ word.x0 * 100 < page_w * LEFT_MARGIN_PCT
    /\ open_ex.number = last_num
    /\ open_ex.spans[1].page = page_idx

\* the exercise that follows exercises[i], if its marker was accepted
HasNext(i) ==
    \/ i < Len(exercises)
    \/ i = Len(exercises) /\ open_ex # NoEx /\ open_ex.number = i + 1

NextOf(i) == IF i < Len(exercises) THEN exercises[i + 1] ELSE open_ex

\* C5: an exercise opened on page P and closed by a marker on page Q has
\* one fragment for each of the pages P..Q in this order, and every page
\* strictly between P and Q is a full-page fragment (0 to its page height);
\* with Q = P + 2 these are exactly three fragments.
C5_MiddlePagesFull ==
    \A i \in 1..Len(exercises) :
        HasNext(i) =>
            LET S == exercises[i].spans
                P == S[1].page
                Q == NextOf(i).spans[1].page
            IN  /\ Len(S) = Q - P + 1
                /\ \A j \in 1..Len(S) : S[j].page = P + j - 1
                /\ \A j \in 2..(Len(S) - 1) :
                       /\ S[j].y_top = 0
                       /\ S[j].y_bottom = pages[S[j].page + 1].height

C5_Witness ==
    \E i \in 1..Len(exercises) :
        /\ HasNext(i)
        /\ Len(exercises[i].spans) = 3
        /\ NextOf(i).spans[1].page = exercises[i].spans[1].page + 2
        /\ pages[exercises[i].spans[2].page + 1].height
             # pages[exercises[i].spans[1].page + 1].height

\* the document of the scenario: two pages 800 points high, marker 1. on
\* page 0 at top 50, marker 2. on page 1 at top 80, both left-anchored
TwoPageScenario ==
    /\ pc = "done"
    /\ Len(pages) = 2
    /\ pages[1].height = 800
    /\ pages[2].height = 800
    /\ in_order
    /\ marks = <<[page |-> 0, top |-> 50], [page |-> 1, top |-> 80]>>

\* C6 as stated: exercise 1 is cropped to page 0 [42, 800] and page 1
\* [0, 800], exercise 2 to page 1 [72, 800].
C6_Original ==
    TwoPageScenario =>
        /\ Len(exercises) = 2
        /\ CropRangesPt(exercises[1]) =
              << [page |-> 0, y_top_pt |-> 42, y_bot_pt |-> 800],
                 [page |-> 1, y_top_pt |-> 0, y_bot_pt |-> 800] >>
        /\ CropRangesPt(exercises[2]) =
              << [page |-> 1, y_top_pt |-> 72, y_bot_pt |-> 800] >>

\* C6 amended: in the two-page scenario exercise 1 is cropped to page 0
\* [42, 800] and page 1 [0, 88] (it ends 8 points below the top of marker
\* 2.), exercise 2 to page 1 [72, 800].
C6_TwoPageScenario ==
    TwoPageScenario =>
        /\ Len(exercises) = 2
        /\ CropRangesPt(exercises[1]) =
              << [page |-> 0, y_top_pt |-> 42, y_bot_pt |-> 800],
                 [page |-> 1, y_top_pt |-> 0, y_bot_pt |-> 88] >>
        /\ CropRangesPt(exercises[2]) =
              << [page |-> 1, y_top_pt |-> 72, y_bot_pt |-> 800] >>

C6_Witness == TwoPageScenario /\ Len(exercises) = 2

\* ------------------------------------------------------------------------
\* Properties of the geometry and stitch routines
\* ------------------------------------------------------------------------
\* C7, as stated: the point-space box (0, 0, pw, ph) of the whole page maps
\* to the pixel box (0, 0)-(W, H) of the whole image.
C7_FullPageToFullImage ==
    (/\ px_pc = "done"
     /\ px_in.bbox = <<0, 0, px_in.page_width, px_in.page_height>>)
    => px_box = <<0, 0, px_in.img_w, px_in.img_h>>

SeparatorOf(kind) == IF kind = "question" THEN 2 ELSE 0

\* C8: stitching two fragments of heights h1, h2 and widths w1 <= w2 gives
\* a canvas of width w2 and height h1 + h2 plus the separator (2 px in the
\* question renderer, none in the answer stitcher); the first fragment is
\* pasted at y = 0 and the second at h1 plus the separator, so the two
\* occupy disjoint vertical ranges in input order.
C8_StitchTwo ==
    (/\ st_pc = "done"
     /\ Len(slices) = 2
     /\ slices[1].width <= slices[2].width)
    => /\ canvas.width = slices[2].width
       /\ canvas.height = slices[1].height + slices[2].height + SeparatorOf(st_kind)
       /\ pasted = <<0, slices[1].height + SeparatorOf(st_kind)>>
       /\ pasted[1] + slices[1].height <= pasted[2]
       /\ pasted[2] + slices[2].height <= canvas.height

C8_Witness ==
    /\ st_pc = "done"
    /\ st_kind = "question"
    /\ Len(slices) = 2
    /\ slices[1].width < slices[2].width
    /\ pasted[2] = slices[1].height + 2

\* ------------------------------------------------------------------------
\* Properties of the answer/steps extractor
\* ------------------------------------------------------------------------
\* an iteration of the table loop
TableStep == tb_pc = "tables" /\ table_idx' = table_idx + 1

NoHeaderMatch(t) ==
    HeaderCol(t.rows[1], AnswerPats) = None /\ HeaderCol(t.rows[1], StepsPats) = None

\* the cells of a kind that this iteration took from its table
AddedCells(old, new, idx, kind) ==
    {c \in UNION {{new[n][kind][i] : i \in 1..Len(new[n][kind])} : n \in DOMAIN new} :
        c.table = idx}

\* C9: a table without header match takes its cells from the answer (steps)
\* column index of the previous tables exactly when that index is smaller
\* than its column count, and reads no column outside the table; after a
\* table whose header gave the answer column c and no steps column, a
\* header-less table with the same column count takes its answer cells at c.
C9_ContinuationReusesColumn ==
    [][(TableStep /\ NoHeaderMatch(table'))
       => LET n == Len(table'.rows[1])
              added_a == AddedCells(all_exercises, all_exercises', table_idx, "answer_cells")
              added_s == AddedCells(all_exercises, all_exercises', table_idx, "steps_cells")
          IN  /\ answer_col' = IF last_answer_col # None /\ last_answer_col < n
                               THEN last_answer_col ELSE None
              /\ steps_col' = IF last_steps_col # None /\ last_steps_col < n
                              THEN last_steps_col ELSE None
              /\ \A c \in added_a : c.col = last_answer_col /\ c.col < n
              /\ \A c \in added_s : c.col = last_steps_col /\ c.col < n
              /\ (/\ table_idx >= 1
                  /\ HeaderCol(table.rows[1], AnswerPats) # None
                  /\ HeaderCol(table.rows[1], StepsPats) = None
                  /\ Len(table.rows[1]) = n)
                 => /\ answer_col' = HeaderCol(table.rows[1], AnswerPats)
                    /\ \A c \in added_a : c.col = HeaderCol(table.rows[1], AnswerPats)]_vars

\* a header-less second table gave answer cells at the column of the first
C9_Witness ==
    /\ table_idx = 2
    /\ NoHeaderMatch(table)
    /\ steps_col = None
    /\ answer_col = 1
    /\ \E n \in DOMAIN all_exercises :
         \E i, j \in 1..Len(all_exercises[n].answer_cells) :
            /\ all_exercises[n].answer_cells[i].table = 0
            /\ all_exercises[n].answer_cells[j].table = 1
            /\ all_exercises[n].answer_cells[i].col = 1
            /\ all_exercises[n].answer_cells[j].col = 1

\* the cells of a kind, and whether its block has run
CellsOf(kind) == IF kind = "answer" THEN data.answer_cells ELSE data.steps_cells

BlockDone(kind) == cr_pc = "done" \/ (kind = "answer" /\ cr_pc = "steps")

PagesOf(cells) == {cells[i].page : i \in 1..Len(cells)}

TooSmall(box) == box[3] - box[1] < 20 \/ box[4] - box[2] < 10

\* C10: a page crop less than 20 pixels wide or less than 10 pixels high is
\* not among the crops the answer (steps) image is stitched from, the image
\* is stitched from the kept crops only, and when every page crop of a kind
\* is too small no file of that kind is written.
C10_SmallCropsDiscarded ==
    \A kind \in Kinds :
        BlockDone(kind) =>
            LET cells == CellsOf(kind)
                crops == page_crops[kind]
            IN  /\ \A i \in 1..Len(crops) :
                      /\ crops[i].width >= 20 /\ crops[i].height >= 10
                      /\ crops[i].page \in PagesOf(cells)
                      /\ crops[i].box = PageBox(cells, crops[i].page)
                /\ \A p \in PagesOf(cells) :
                      TooSmall(PageBox(cells, p))
                         => \A i \in 1..Len(crops) : crops[i].page # p
                /\ saved[kind] =>
                      /\ crops # <<>>
                      /\ final_image[kind].height =
                            SumHeights([i \in 1..Len(crops) |-> crops[i]])
                      /\ final_image[kind].width =
                            MaxWidth([i \in 1..Len(crops) |-> crops[i]])
                /\ (\A p \in PagesOf(cells) : TooSmall(PageBox(cells, p)))
                      => ~saved[kind] /\ final_image[kind] = NoImage

\* the answer file was built from the crop of page 2 alone because the crop
\* of page 1 was too small, and no steps file was written because every
\* steps crop was too small
C10_Witness ==
    /\ cr_pc = "done"
    /\ PagesOf(data.answer_cells) = {1, 2}
    /\ TooSmall(PageBox(data.answer_cells, 1))
    /\ saved["answer"]
    /\ Len(page_crops["answer"]) = 1
    /\ data.steps_cells # <<>>
    /\ ~saved["steps"]

\* the table of this iteration was not skipped at line 172
Processed == answer_col' # None \/ steps_col' # None

\* C20: a processed table is walked from row 0 exactly when its row 0 has no
\* header match and both its column indices are those of the previous
\* tables; every other processed table, in particular every table whose
\* row 0 identified a column by header text, is walked from row 1.
C20_StartRowZeroIffContinuation ==
    [][(TableStep /\ Processed)
       => /\ start_row' \in {0, 1}
          /\ start_row' = 0 <=> (/\ NoHeaderMatch(table')
                                 /\ answer_col' = last_answer_col
                                 /\ steps_col' = last_steps_col)]_vars

\* ------------------------------------------------------------------------
\* Properties of the test generation
\* ------------------------------------------------------------------------
Matching(q, n) ==
    /\ q.question_number = n
    /\ q.type = request.type
    /\ q.language = request.language

SomeSlotEmpty ==
    \E n \in REQUIRED_QUESTION_NUMBERS : ~\E q \in questions : Matching(q, n)

\* C19: generate_test either raises ValueError, exactly when some number in
\* 1..12 has no stored question of the requested type and language, and then
\* no test and no test_questions row is persisted; or it commits exactly one
\* test with exactly 12 rows at positions 1..12 whose question at position p
\* has number p and the requested type and language.  Nothing is persisted
\* before the twelve questions are selected.
C19_AllOrNothing ==
    /\ gn_pc = "select" => tests = {} /\ test_questions = {}
    /\ gn_pc = "raised" => SomeSlotEmpty /\ tests = {} /\ test_questions = {}
    /\ gn_pc = "returned" =>
          /\ ~SomeSlotEmpty
          /\ Cardinality(tests) = 1
          /\ Cardinality(test_questions) = 12
          /\ \A t \in tests : t.type = request.type /\ t.language = request.language
          /\ \A p \in 1..12 :
                \E r \in test_questions :
                   /\ r.position = p
                   /\ r.test_id \in {t.id : t \in tests}
                   /\ \E q \in questions : q.id = r.question_id /\ Matching(q, p)
    /\ (gn_pc = "select" /\ SomeSlotEmpty) => q_num \in REQUIRED_QUESTION_NUMBERS

\* a test was committed although the store also holds questions of another
\* type and of another language for number 5, and two candidates for number 1
C19_Witness ==
    /\ gn_pc = "returned"
    /\ Cardinality(test_questions) = 12
    /\ \E q \in questions : q.question_number = 5 /\ q.type # request.type
    /\ \E q \in questions : q.question_number = 5 /\ q.language # request.language
    /\ \E q \in questions : q.id = 13

\* ------------------------------------------------------------------------
\* Properties of an upload
\* ------------------------------------------------------------------------
\* the service has returned a dict
Returned == up_pc \in {"returned", "responded"}

AnswersDone == upload.endpoint = "barem" /\ Returned /\ result.success

\* exercise ex got an image of this kind in this run
HasImage(ex, kind) == <<ex, kind>> \in files

\* the path stored for exercise ex: the answer image, else the steps image
PrimaryPath(ex) ==
    IF HasImage(ex, "answer") THEN ImagePath(RunStem, ex, "answer")
    ELSE ImagePath(RunStem, ex, "steps")

ScenarioTable ==
    <<<<TxtEx, TxtAnswer, TxtSteps>>, <<TxtOne, TxtData, TxtData>>>>

\* the single table of the scenario has been read, and its cells are wide
\* enough for a crop
ScenarioRead ==
    /\ upload.endpoint = "barem"
    /\ ntables = 1
    /\ table_idx = 1
    /\ table.rows = ScenarioTable
    /\ steps_pt = 250

\* C11: a single table with header Ex | Raspuns corect | Etape rezolvare and
\* one data row 1. | A | text gives exactly one exercise group, for exercise
\* 1, with exactly one answer cell (row 1, column 1) and one steps cell (row
\* 1, column 2), and the run that returns has written exactly the answer
\* image and the steps image of exercise 1.
C11_SingleTableScenario ==
    ScenarioRead =>
        /\ DOMAIN all_exercises = {1}
        /\ all_exercises[1].answer_cells =
              << [table |-> 0, page |-> 1, row |-> 1, col |-> 1] >>
        /\ all_exercises[1].steps_cells =
              << [table |-> 0, page |-> 1, row |-> 1, col |-> 2] >>
        /\ (Returned /\ result.success)
              => files = { <<1, "answer">>, <<1, "steps">> }

C11_Witness ==
    /\ ScenarioRead
    /\ up_pc = "responded"
    /\ result.success
    /\ files = { <<1, "answer">>, <<1, "steps">> }

\* C12: after a successful answer run every exercise with an answer image or
\* a steps image has an answer record with that path in the store, is
\* listed in the returned answers and is counted, whether or not it has
\* cells of the other kind.
C12_AnswerAndStepsIndependent ==
    AnswersDone =>
        /\ \A ex \in DOMAIN all_exercises :
              (HasImage(ex, "answer") \/ HasImage(ex, "steps"))
                 => /\ \E a \in db.answers :
                          a.path_to_answer = PrimaryPath(ex) /\ a.question_number = ex
                    /\ \E i \in 1..Len(result.items) :
                          result.items[i].exercise_number = ex
        /\ result.saved =
              Cardinality({ex \in DOMAIN all_exercises :
                              HasImage(ex, "answer") \/ HasImage(ex, "steps")})

\* C13: after a successful answer run every stored question whose number is
\* that of an extracted exercise and whose path contains the stem refers to
\* an answer record with this run's image path, and a question that already
\* referred to an answer still refers to the same record.
C13_QuestionLinked ==
    AnswersDone =>
        \A ex \in DOMAIN all_exercises :
            (HasImage(ex, "answer") \/ HasImage(ex, "steps")) =>
                \A q \in db.questions :
                    (q.question_number = ex /\ Contains(q.path.dir, RunStem))
                       => \E a \in db.answers :
                             a.id = q.answer_id /\ a.path_to_answer = PrimaryPath(ex)

\* the texts of the returned payload
PayloadTexts(r) == {r.message}

\* C14: when no stored question matches an exercise that is saved, the
\* answer record is linked to no question, the run still returns success
\* after iterating every exercise, and the returned payload holds the warning.
C14_OrphanWarningInPayload ==
    AnswersDone =>
        /\ ex_idx = Cardinality(DOMAIN all_exercises)
        /\ \A w \in printed :
              /\ \E a \in db.answers :
                    /\ a.question_number = w[2]
                    /\ ~\E q \in db.questions : q.answer_id = a.id
              /\ w \in PayloadTexts(result)

\* C15: the return of a run in which no exercise was detected (no marker
\* accepted; no table gave an exercise group) has success = FALSE and a
\* saved count of 0, and leaves the store as it was.
C15_NoExercisesUnsuccessful ==
    [][(/\ up_pc' = "returned"
        /\ \/ up_pc = "detect" /\ exercises' = <<>>
           \/ up_pc = "answers" /\ tb_pc = "done" /\ all_exercises = NoExercises)
       => /\ result'.success = FALSE
          /\ result'.saved = 0
          /\ db' = db]_vars

\* the step is the except clause of a service
FailStep ==
    /\ InTry
    /\ up_pc' = "returned"
    /\ result'.message = <<"Error">>

\* C16: a failure inside a run rolls the session back to the committed
\* store and returns success = FALSE, a saved count of 0 and the error; the
\* committed store changes only in the commit that ends a successful run,
\* where it takes all changes of the session.
C16_AllOrNothingCommit ==
    [][/\ FailStep => /\ db' = db
                      /\ session' = db
                      /\ result'.success = FALSE
                      /\ result'.saved = 0
       /\ db' # db => /\ up_pc' = "returned"
                      /\ result'.success
                      /\ db' = session]_vars

\* a run failed after answers had been added and flushed or questions added
C16_Witness ==
    /\ up_pc = "returned"
    /\ result = FailedResult
    /\ saved_count > 0
    /\ session = db

\* C17: when a service has ended, by a return or by an exception, the
\* temporary PDF copy does not exist.
C17_TmpRemoved ==
    up_pc \in {"returned", "responded", "crashed"} => ~tmp_exists

Invalid(u) ==
    \/ ~u.ends_pdf
    \/ u.empty
    \/ u.endpoint = "barem" /\ ~u.has_barem

\* C18: an upload whose filename does not end in .pdf, whose content is
\* empty or, for an answer key, whose filename lacks _barem, is rejected
\* with the message of its first failed test, and no service step is ever
\* taken for it: no temporary file, no output directory, no image, no
\* change of the session or the store, no result.
C18_ValidationFirst ==
    /\ Invalid(upload) =>
          /\ up_pc \in {"request", "rejected"}
          /\ ~tmp_exists /\ ~dir_exists /\ files = {}
          /\ session = db /\ db \in StoreChoices /\ result = NoResult
          /\ tb_pc = "idle" /\ exercises = <<>>
    /\ up_pc = "rejected" =>
          /\ Invalid(upload)
          /\ http_detail =
                IF ~upload.ends_pdf THEN "Only PDF files are allowed"
                ELSE IF upload.endpoint = "barem" /\ ~upload.has_barem
                     THEN "File must be a barem PDF (filename should contain '_barem')"
                ELSE "Empty file provided"

\* an answer key named without _barem was rejected
C18_Witness ==
    /\ up_pc = "rejected"
    /\ upload.endpoint = "barem"
    /\ upload.ends_pdf
    /\ ~upload.has_barem
    /\ ~upload.empty


\* ------------------------------------------------------------------------
\* Further properties of the question segmenter
\* ------------------------------------------------------------------------
\* a step of the word loop in which the word is accepted as the next marker
AcceptStep == WordStep /\ last_num' # last_num

NumbersOnce(exs) ==
    \A i, j \in 1..Len(exs) : exs[i].number = exs[j].number => i = j

\* C23: when a marker is accepted while a span is open, the last fragment of
\* that span is on the marker's page, the span is appended to the finalized
\* list with this fragment's y_bottom set to the marker's top, and no other
\* step of the scan appends; at the end of the document a span that is still
\* open is appended, so every accepted number is in the returned list exactly
\* once.
C23_ClosingSpan ==
    /\ [][(AcceptStep /\ open_ex # NoEx) =>
              /\ _current_span(open_ex).page = page_idx
              /\ exercises' = Append(exercises, SetBottom(open_ex, word'.top))]_vars
       /\ [][(AcceptStep /\ open_ex = NoEx) => exercises' = exercises]_vars
       /\ [][(pc' # "done" /\ ~AcceptStep) => exercises' = exercises]_vars
       /\ [][(pc # "done" /\ pc' = "done") =>
                 exercises' = IF open_ex # NoEx THEN Append(exercises, open_ex)
                              ELSE exercises]_vars
    /\ [](NumbersOnce(exercises))
    /\ [](pc = "done" =>
             \A n \in 1..last_num :
                 \E i \in 1..Len(exercises) : exercises[i].number = n)

C23_Witness ==
    /\ pc = "done"
    /\ Len(exercises) = 2
    /\ Len(exercises[1].spans) = 2
    /\ exercises[1].spans[2].y_bottom = 80
    /\ exercises[2].spans[1].y_top = 80
    /\ exercises[2].number = last_num

ConsecutivePages(ex) ==
    \A i \in 1..(Len(ex.spans) - 1) : ex.spans[i + 1].page = ex.spans[i].page + 1

\* C24: in every state of the scan the fragments of the open span and of
\* every finalized span are on consecutive pages in ascending order, and the
\* first fragment starts at the top of the marker that opened the exercise:
\* it is set to the accepted word's top on the marker's page and is not
\* changed afterwards.
C24_FragmentsAscending ==
    /\ [](/\ open_ex # NoEx => ConsecutivePages(open_ex)
          /\ \A i \in 1..Len(exercises) : ConsecutivePages(exercises[i]))
    /\ [][AcceptStep =>
              /\ open_ex'.spans[1].y_top = word'.top
                 /\ open_ex'.spans[1].page = page_idx
                 /\ Len(open_ex'.spans) = 1]_vars
       /\ [][(open_ex # NoEx /\ ~AcceptStep) =>
                 /\ open_ex'.spans[1].y_top = open_ex.spans[1].y_top
                 /\ open_ex'.spans[1].page = open_ex.spans[1].page]_vars
       /\ [][/\ \A i \in 1..Len(exercises) : exercises'[i] = exercises[i]
             /\ Len(exercises') > Len(exercises) =>
                   /\ exercises'[Len(exercises')].spans[1].y_top
                          = open_ex.spans[1].y_top
                   /\ exercises'[Len(exercises')].spans[1].page
                          = open_ex.spans[1].page]_vars

C24_Witness ==
    /\ pc = "words"
    /\ Len(exercises) = 1
    /\ Len(exercises[1].spans) = 2
    /\ exercises[1].spans[1].y_top = 80
    /\ open_ex # NoEx
    /\ Len(open_ex.spans) = 2
    /\ open_ex.spans[1].y_top = 50
    /\ open_ex.spans[1].page = 1
    /\ open_ex.spans[2].page = 2

SpanInPage(sp) ==
    0 <= sp.y_top /\ sp.y_top <= sp.y_bottom /\ sp.y_bottom <= sp.page_height

\* C28: every fragment of every returned exercise has
\* 0 <= y_top <= y_bottom <= page_height, also when an accepted marker is
\* higher on the page than the marker accepted before it.
C28_FragmentsInPage ==
    pc = "done" =>
        \A i \in 1..Len(exercises) :
            \A k \in 1..Len(exercises[i].spans) : SpanInPage(exercises[i].spans[k])

\* C29: during the scan last_num is the number of finalized exercises, plus
\* one when a span is open; the open span carries last_num; and last_num
\* never decreases.
C29_LastNumCounts ==
    /\ [](pc \in {"page", "words"} =>
             /\ last_num = Len(exercises) + (IF open_ex # NoEx THEN 1 ELSE 0)
             /\ open_ex # NoEx => open_ex.number = last_num
             /\ open_ex = NoEx => last_num = 0)
    /\ [][last_num' >= last_num]_vars

C29_Witness ==
    /\ pc = "words"
    /\ last_num = 2
    /\ Len(exercises) = 1
    /\ open_ex.number = 2
    /\ ExerciseNumMatch(word.text) = 1
    /\ word.x0 = LeftX0
    /\ Len(pages) = 2


\* ------------------------------------------------------------------------
\* Further properties of the table loop
\* ------------------------------------------------------------------------
\* the iteration skipped its table (line 171)
SkipStep == TableStep /\ answer_col' = None /\ steps_col' = None

Marked(rows, r) == _extract_exercise_number(rows[r + 1][1]) # None

\* the exercise of the nearest marked row from row s up to row r; pend when
\* no row from s to r is marked
Owner(rows, s, r, pend) ==
    LET marked == {k \in s..r : Marked(rows, k)}
    IN  IF marked = {} THEN pend
        ELSE _extract_exercise_number(
                 rows[(CHOOSE k \in marked : \A j \in marked : k >= j) + 1][1])

\* the rows of table idx whose cells are in the group of exercise n
RowsIn(all, idx, n) ==
    {all[n].answer_cells[i].row :
        i \in {k \in 1..Len(all[n].answer_cells) : all[n].answer_cells[k].table = idx}}
    \cup {all[n].steps_cells[i].row :
        i \in {k \in 1..Len(all[n].steps_cells) : all[n].steps_cells[k].table = idx}}

\* C21: in a table that is not skipped, every row from the start row on
\* belongs to the exercise of the nearest marked row above it, to the
\* exercise pending from the tables before when no row above it is marked,
\* and to no exercise when there is neither; the exercise current at the
\* end of a table that is not the last is pending for the next table; after
\* the last table no exercise is pending.
C21_CrossTableContinuation ==
    /\ [][(TableStep /\ ~SkipStep) =>
              LET rows == table'.rows
                  last == Len(rows) - 1
                  ended == IF start_row' > last THEN pending_exercise
                           ELSE Owner(rows, start_row', last, pending_exercise)
              IN  /\ \A r \in 0..last : \A n \in DOMAIN all_exercises' :
                         r \in RowsIn(all_exercises', table_idx, n)
                             <=> /\ r >= start_row'
                                 /\ Owner(rows, start_row', r, pending_exercise) = n
                  /\ \A r \in start_row'..last :
                         Owner(rows, start_row', r, pending_exercise) # None =>
                             Owner(rows, start_row', r, pending_exercise)
                                 \in DOMAIN all_exercises'
                  /\ pending_exercise' =
                         IF ended # None /\ table_idx < ntables - 1
                         THEN ended ELSE None]_vars
    /\ [](tb_pc = "done" => pending_exercise = None)

\* the iteration before this state skipped its table
AfterSkip == table_idx >= 1 /\ answer_col = None /\ steps_col = None

\* all_exercises after the table of this step, had the table before it not
\* been in the list: the index of the table is one less
AsIfAbsent ==
    LET first == StartRow(answer_col', steps_col', last_answer_col', last_steps_col',
                          table_idx - 1)
        walk == WalkRows(table'.rows, first, pending_exercise,
                         IF pending_exercise # None
                         THEN [n \in {pending_exercise} |-> <<>>]
                         ELSE NoExercises)
    IN  Collected(all_exercises, table', table_idx, walk.exercise_rows,
                  answer_col', steps_col')

\* C22: a skipped table adds no cell to any group and leaves the remembered
\* columns, the pending exercise and the groups unchanged, and the table
\* after it gives the groups it would give if the skipped table were not in
\* the list.
C22_SkippedTableAbsent ==
    /\ [][SkipStep =>
              UNCHANGED <<last_answer_col, last_steps_col, pending_exercise,
                          all_exercises>>]_vars
    /\ [][(TableStep /\ ~SkipStep /\ AfterSkip) =>
              all_exercises' = AsIfAbsent]_vars

HeaderFound(t) ==
    HeaderCol(t.rows[1], AnswerPats) # None \/ HeaderCol(t.rows[1], StepsPats) # None

\* C27: row 0 of a table in which a column was found by the header wording
\* has no cell in any exercise's answer_cells or steps_cells.
C27_HeaderRowNotAttributed ==
    (tb_pc \in {"tables", "done"} /\ table # NoTable /\ HeaderFound(table)) =>
        \A n \in DOMAIN all_exercises : 0 \notin RowsIn(all_exercises, table_idx - 1, n)


\* ------------------------------------------------------------------------
\* Further properties of the two services
\* ------------------------------------------------------------------------
\* the height in pixels of the slice of a fragment, before the test of line 164
SliceHeightPx(span, px) ==
    Min(px[2], _pt_to_px(Min(span.page_height, span.y_bottom + PADDING_BOTTOM),
                         span.page_height, px[2]))
    - Max(0, _pt_to_px(Max(0, span.y_top - PADDING_TOP), span.page_height, px[2]))

\* some fragment of the exercise is at least 4 pixels high
Renders(ex, px) == \E k \in 1..Len(ex.spans) : SliceHeightPx(ex.spans[k], px) >= 4

RenderedOf(exs, px) == {i \in 1..Len(exs) : Renders(exs[i], px)}

\* an iteration of the loop that saves the questions
QuestionStep == up_pc = "exercises" /\ up_pc' = "exercises" /\ ex_idx' = ex_idx + 1

\* C25: in the question pipeline an exercise all of whose fragments are less
\* than 4 pixels high writes no image and adds no record, and the loop goes
\* on; an exercise with a higher fragment is saved; the successful run
\* returns questions_saved equal to the number of exercises that rendered
\* and to the number of question records it added.
C25_UnrenderedExerciseSkipped ==
    /\ [][QuestionStep =>
              IF Renders(exercises[ex_idx + 1], page_px)
              THEN /\ saved_count' = saved_count + 1
                   /\ <<exercises[ex_idx + 1].number, "question">> \in files'
                   /\ Cardinality(session'.questions)
                          = Cardinality(session.questions) + 1
              ELSE UNCHANGED <<files, session, saved_count, saved_items>>]_vars
    /\ [][(up_pc = "exercises" /\ up_pc' = "returned" /\ result'.success) =>
              /\ result'.saved = Cardinality(RenderedOf(exercises, page_px))
              /\ Cardinality(db'.questions) - Cardinality(db.questions)
                     = result'.saved]_vars

C25_Witness ==
    /\ up_pc = "returned"
    /\ upload.endpoint = "pdf"
    /\ result.success
    /\ Len(exercises) = 2
    /\ ~Renders(exercises[1], page_px)
    /\ Renders(exercises[2], page_px)
    /\ result.saved = 1
    /\ files = {<<2, "question">>}

\* C26: the pixel box of every crop that is made has
\* 0 <= x0 < x1 <= image width and 0 <= y0 < y1 <= image height, also for a
\* cell partly or wholly outside the page; a box that is empty after the
\* clamp is not cropped.
C26_PixelBoxValid ==
    px_pc = "done" =>
        /\ px_saved =>
              /\ 0 <= px_box[1] /\ px_box[1] < px_box[3] /\ px_box[3] <= px_in.img_w
              /\ 0 <= px_box[2] /\ px_box[2] < px_box[4] /\ px_box[4] <= px_in.img_h
        /\ (px_box[3] - px_box[1] <= 0 \/ px_box[4] - px_box[2] <= 0) => ~px_saved

C26_Witness ==
    /\ px_pc = "done"
    /\ px_saved
    /\ px_in.bbox[1] < 0
    /\ px_in.bbox[2] < 0
    /\ px_box[1] = 0
    /\ px_box[4] = px_in.img_h

\* question id and answer id of every linked question
Links(store) == {<<q.id, q.answer_id>> : q \in store.questions}

\* C30: a second successful run of extract_and_save_answers on the same
\* answer key and the same stored questions leaves as many answer records
\* and the same question-to-answer links as the first run left.
C30_SecondRunIdempotent ==
    (second_run /\ up_pc \in {"returned", "responded"} /\ result.success) =>
        /\ Cardinality(db.answers) = Cardinality(first_db.answers)
        /\ Links(db) = Links(first_db)

====
